---- MODULE Spec2Model ----
(***************************************************************************)
(* Text graphs: the protocol server (tgserve.py), the server-backed store  *)
(* (textgraph.py) and the in-memory store that recycles ids (mge.py).      *)
(*                                                                         *)
(* The specifications share the variables:                                 *)
(*   SpecServer  raw protocol requests against one server                  *)
(*   SpecAlloc   one server and the history of its allocations             *)
(*   SpecPipe    the serve loop step by step, with clients writing to it   *)
(*   SpecRepl    single operations and undecodable lines, with and         *)
(*               without --repl                                            *)
(*   SpecClient  one server-backed store driving a writable server         *)
(*   SpecDraft   a store committing one transaction after the other        *)
(*   SpecHood    the neighborhoods of a server-backed store                *)
(*   SpecFile    a file loaded and saved without an edit                   *)
(*   SpecTree    getTree and deleteTree of the server-backed store         *)
(*   SpecMem     the in-memory store                                       *)
(***************************************************************************)
EXTENDS Integers, Sequences, FiniteSets, TLC

VARIABLES
  graph,                \* server: dict id -> [id, text, streets], in dict (insertion) order
  streetsByDestination, \* server: dict destination -> list of [origin, name, destination]
  nextSquareId,         \* server: the id the next allocation hands out
  readonly,             \* server: True when the source is an http:// resource
  running,              \* server: False once the process has died on an uncaught exception
  repl,                 \* server: True when it was started with --repl
  resultingSquares,     \* server: first response line of the last request
  returnValues,         \* server: second response line of the last request
  stagedSquares,        \* store: the staged buffer
  done,                 \* store: the undo stack
  undone,               \* store: the redo stack
  edited,               \* store: the dirty flag
  squares,              \* in-memory store: the list of Square objects, squares[id + 1]
  deleted,              \* in-memory store: the free list
  lastOp,               \* history: the operation that produced this state
  phase,                \* history: position in an apply / undo / redo round trip
  pre,                  \* history: the store and server fields before lastOp
  stdin,                \* pipe: the request lines written to the server and not read yet
  stdout                \* pipe: the response lines the server has written

vars == <<graph, streetsByDestination, nextSquareId, readonly, running, repl,
          resultingSquares, returnValues, stagedSquares, done, undone, edited,
          squares, deleted, lastOp, phase, pre, stdin, stdout>>

serverVars == <<graph, streetsByDestination, nextSquareId, readonly, running, repl,
                resultingSquares, returnValues>>
storeVars == <<stagedSquares, done, undone, edited>>
memVars == <<squares, deleted>>
pipeVars == <<stdin, stdout>>

(***************************************************************************)
(* Values                                                                  *)
(***************************************************************************)
None == "null"          \* Python None, JSON null, in a text or status position
NullId == 0 - 1         \* JSON null in the id position of an operation
ReadOnly == "Read only"
DoesNotExist == "Square does not exist."

\* Bounds of the model
MaxNextId == 3          \* the store allocates while nextSquareId < MaxNextId
MaxServerNextId == 2    \* raw allocations are served while nextSquareId < MaxServerNextId
MaxStaged == 1          \* longest buffer staged by hand in the server-backed store
MaxStagedMem == 2       \* longest buffer staged by hand in the in-memory store
MaxDone == 1            \* deepest undo stack explored
MaxSquares == 2         \* longest in-memory square list explored
MaxIncoming == 3        \* longest reverse-index list the store's requests build
MaxServerIncoming == 2  \* longest reverse-index list raw requests build
MaxDeleted == 1         \* longest in-memory free list explored
MaxAllocId == 2         \* largest id of the allocation history's requests
MaxHeader == 2          \* most header lines of a file
MaxRecords == 3         \* most record lines of a file
MaxCenter == 3          \* largest id a neighborhood is asked for
MaxLevel == 3           \* most rounds of a neighborhood
MaxHoodStaged == 1      \* longest buffer staged between neighborhoods
MaxHoodDone == 1        \* deepest undo stack built between neighborhoods
MaxCommitted == 6       \* most transactions one store commits in a row
MaxClients == 2         \* clients writing to one server
MaxRequests == 3        \* request lines sent to one server
MaxTreeDone == 1        \* transactions deleteTree commits before an undo
MaxTreeDeleted == 3     \* longest free list deleteTree builds
MaxTreeStaged == 1      \* most squares a deleteTree that raises leaves staged
MaxSharedStaged == 2    \* longest buffer of the client that shares its server
MaxSharedDone == 1      \* transactions that client commits

\* Street names in ascending (Python str) order
Names == <<"l", "m">>
NameRank(name) == CHOOSE i \in DOMAIN Names : Names[i] = name

(***************************************************************************)
(* Sequence helpers                                                        *)
(***************************************************************************)
Range(s) == {s[i] : i \in DOMAIN s}

\* [origin, name, destination] lists compare lexicographically
StreetEntryLess(a, b) ==
  \/ a[1] < b[1]
  \/ a[1] = b[1] /\ NameRank(a[2]) < NameRank(b[2])
  \/ a[1] = b[1] /\ a[2] = b[2] /\ a[3] < b[3]

RECURSIVE Insert(_, _)
Insert(sorted, e) ==
  IF sorted = <<>> THEN <<e>>
  ELSE IF StreetEntryLess(e, Head(sorted)) THEN <<e>> \o sorted
  ELSE <<Head(sorted)>> \o Insert(Tail(sorted), e)

RECURSIVE Sort(_)
Sort(s) == IF s = <<>> THEN <<>> ELSE Insert(Sort(Tail(s)), Head(s))

(***************************************************************************)
(* The server's graph dict: a sequence of [id, text, streets] in dict      *)
(* order (a new key goes last, an overwritten key keeps its place).        *)
(***************************************************************************)
Keys(g) == {g[i][1] : i \in DOMAIN g}
Get(g, k) == g[CHOOSE i \in DOMAIN g : g[i][1] = k]
\* Put that leaves a key of the dict with the value it has
PutIfAbsent(g, k, v) ==
  IF k \in Keys(g) THEN g ELSE Append(g, v)

Put(g, k, v) ==
  IF k \in Keys(g) THEN [i \in DOMAIN g |-> IF g[i][1] = k THEN v ELSE g[i]]
  ELSE Append(g, v)
Del(g, k) == SelectSeq(g, LAMBDA e : e[1] # k)

Incoming(sbd, k) == IF k \in DOMAIN sbd THEN sbd[k] ELSE <<>>
SetKey(f, k, v) == [x \in DOMAIN f \cup {k} |-> IF x = k THEN v ELSE f[x]]

(***************************************************************************)
(* TextGraphServer.interpretLine, one operation of the request.            *)
(* sv is the server: [graph, streetsByDestination, nextSquareId, readonly, *)
(* running, resultingSquares, returnValues].                               *)
(***************************************************************************)
\* NotExist with the KeyError left uncaught
NotExistUncaught(sv, squareId, next) ==
  [sv EXCEPT !.nextSquareId = next, !.running = FALSE]

\* lines 100-103, 109-112, 116-119: the answer for an id that is not a key
NotExist(sv, squareId, next) ==
  [sv EXCEPT !.nextSquareId = next,
             !.resultingSquares = Append(@, <<squareId, None, <<>>, <<>>>>),
             !.returnValues = Append(@, <<squareId, DoesNotExist, DoesNotExist>>)]

\* lines 121-123 left out: the reverse entries of the old streets stay
DropNothing(sbd, oldStreets, squareId) == sbd

\* lines 121-123: drop the reverse entries of the node being overwritten
RECURSIVE DropOld(_, _, _)
DropOld(sbd, oldStreets, squareId) ==
  IF oldStreets = <<>> THEN sbd
  ELSE LET d == Head(oldStreets)[2]
       IN DropOld(SetKey(sbd, d, SelectSeq(sbd[d], LAMBDA e : e[1] # squareId)),
                  Tail(oldStreets), squareId)

\* lines 125-129: enter the new streets, keeping each list sorted
RECURSIVE AddNew(_, _, _)
AddNew(sbd, streets, squareId) ==
  IF streets = <<>> THEN sbd
  ELSE LET name == Head(streets)[1]
           d == Head(streets)[2]
       IN AddNew(SetKey(sbd, d, Sort(Append(Incoming(sbd, d), <<squareId, name, d>>))),
                 Tail(streets), squareId)

Answer(sv, squareId, next, g, sbd, text, streets) ==
  [sv EXCEPT !.graph = g,
             !.streetsByDestination = sbd,
             !.nextSquareId = next,
             !.resultingSquares = Append(@, <<squareId, text, streets, Incoming(sbd, squareId)>>),
             !.returnValues = Append(@, <<squareId, None, [i \in DOMAIN streets |-> None]>>)]

InterpretSquare(sv, square) ==
  LET squareId == IF square[1] = NullId THEN sv.nextSquareId ELSE square[1]
      next == IF square[1] = NullId THEN sv.nextSquareId + 1
              ELSE IF squareId > sv.nextSquareId THEN squareId + 1
              ELSE sv.nextSquareId
      exists == squareId \in Keys(sv.graph)
  IN
  IF sv.readonly THEN
    IF exists
    THEN [sv EXCEPT !.nextSquareId = next,
                    !.resultingSquares = Append(@, Get(sv.graph, squareId)),
                    !.returnValues = Append(@, <<squareId, ReadOnly, <<ReadOnly>>>>)]
    ELSE [sv EXCEPT !.nextSquareId = next, !.running = FALSE]   \* KeyError, line 92
  ELSE IF Len(square) < 3 /\ ~exists THEN NotExist(sv, squareId, next)
  ELSE
    LET text == IF Len(square) >= 2 THEN square[2] ELSE Get(sv.graph, squareId)[2]
        streets == IF Len(square) >= 3 THEN square[3] ELSE Get(sv.graph, squareId)[3]
    IN
    IF text = None THEN
      IF exists
      THEN Answer(sv, squareId, next, Del(sv.graph, squareId),
                  sv.streetsByDestination, text, streets)
      ELSE NotExist(sv, squareId, next)
    ELSE
      LET cleared == IF exists
                     THEN DropOld(sv.streetsByDestination, Get(sv.graph, squareId)[3], squareId)
                     ELSE sv.streetsByDestination
      IN Answer(sv, squareId, next, Put(sv.graph, squareId, <<squareId, text, streets>>),
                AddNew(cleared, streets, squareId), text, streets)

RECURSIVE InterpretSquares(_, _)
InterpretSquares(sv, sqs) ==
  IF sqs = <<>> \/ ~sv.running THEN sv
  ELSE InterpretSquares(InterpretSquare(sv, Head(sqs)), Tail(sqs))

\* A request is the list of its operations; a bare operation [id, ...] is the
\* one-element list (line 66) and the empty list asks for every key (59-61).
InterpretLine(sv, inputObject) ==
  LET start == [sv EXCEPT !.resultingSquares = <<>>, !.returnValues = <<>>]
      sqs == IF inputObject = <<>>
             THEN [i \in DOMAIN sv.graph |-> <<sv.graph[i][1]>>]
             ELSE inputObject
  IN IF sqs = <<>> THEN [start EXCEPT !.running = FALSE]      \* IndexError, line 63
     ELSE InterpretSquares(start, sqs)

(***************************************************************************)
(* TextGraphServer.__init__: every line of the file goes through           *)
(* interpretLine, then square 0 is created when the file had none.         *)
(***************************************************************************)
EmptyServer ==
  [graph |-> <<>>, streetsByDestination |-> <<>>, nextSquareId |-> 0,
   readonly |-> FALSE, running |-> TRUE, repl |-> FALSE,
   resultingSquares |-> <<>>, returnValues |-> <<>>]

RECURSIVE LoadLines(_, _)
LoadLines(sv, lines) ==
  IF lines = <<>> THEN sv
  ELSE LoadLines(InterpretLine(sv, <<Head(lines)>>), Tail(lines))

StartServer(lines, isHttp) ==
  LET loaded == [LoadLines(EmptyServer, lines) EXCEPT
                   !.readonly = isHttp,
                   !.resultingSquares = <<>>, !.returnValues = <<>>]
  IN IF 0 \in Keys(loaded.graph) THEN loaded
     ELSE [loaded EXCEPT !.graph = Append(@, <<0, "", <<>>>>), !.nextSquareId = 1]

\* Well-formed id-tagged files the server is started on (<<>>: no file)
Files ==
  { <<>>,
    << <<0, "a", <<>>>> >>,
    << <<0, "a", << <<"l", 1>> >>>>, <<1, "b", <<>>>> >>,
    << <<2, "b", << <<"l", 2>> >>>> >> }

Server ==
  [graph |-> graph, streetsByDestination |-> streetsByDestination,
   nextSquareId |-> nextSquareId, readonly |-> readonly, running |-> running,
   repl |-> repl, resultingSquares |-> resultingSquares, returnValues |-> returnValues]

SetServer(sv) ==
  /\ graph' = sv.graph
  /\ streetsByDestination' = sv.streetsByDestination
  /\ nextSquareId' = sv.nextSquareId
  /\ readonly' = sv.readonly
  /\ running' = sv.running
  /\ repl' = sv.repl
  /\ resultingSquares' = sv.resultingSquares
  /\ returnValues' = sv.returnValues

NoStore ==
  /\ stagedSquares = <<>> /\ done = <<>> /\ undone = <<>> /\ edited = FALSE

NoMem == squares = <<>> /\ deleted = <<>>

NoPipes == stdin = <<>> /\ stdout = <<>>

NoOp == [name |-> "init"]
NoPhase == [step |-> "none"]
NoPre == [name |-> "none"]

InitServer ==
  /\ \E lines \in Files, isHttp \in BOOLEAN :
       LET sv == StartServer(lines, isHttp)
       IN /\ graph = sv.graph
          /\ streetsByDestination = sv.streetsByDestination
          /\ nextSquareId = sv.nextSquareId
          /\ readonly = sv.readonly
          /\ running = sv.running
          /\ repl = sv.repl
          /\ resultingSquares = sv.resultingSquares
          /\ returnValues = sv.returnValues
  /\ NoStore /\ NoMem /\ NoPipes
  /\ lastOp = NoOp /\ phase = NoPhase /\ pre = NoPre

(***************************************************************************)
(* TextGraphServer.serve: one request line at a time.                      *)
(***************************************************************************)
Ids == 0 .. 1
Texts == {"a", "b"}
StreetLists ==
  { <<>>, << <<"m", 1>>, <<"l", 0>> >> }

\* the reverse index only grows while a node is deleted and written again
Bounded(sv) ==
  \A d \in DOMAIN sv.streetsByDestination : Len(sv.streetsByDestination[d]) <= MaxIncoming

\* where a request stands: the first one after a line the REPL skipped, or
\* the query of the id the request before it upserted with text and streets
ServerPhase(kind, inputObject) ==
  IF phase.step = "skipped" THEN [step |-> "resumed"]
  ELSE IF /\ kind = "query"
          /\ lastOp.name = "upsert"
          /\ Len(lastOp.inputObject[1]) = 3
          /\ inputObject[1][1] = lastOp.inputObject[1][1]
  THEN [step |-> "readBack"]
  ELSE NoPhase

ServerBounded(sv) ==
  \A d \in DOMAIN sv.streetsByDestination :
    Len(sv.streetsByDestination[d]) <= MaxServerIncoming

Serve(kind, inputObject) ==
  /\ running
  /\ \E sv \in {InterpretLine(Server, inputObject)} :
       ServerBounded(sv) /\ SetServer(sv)
  /\ lastOp' = [name |-> kind, inputObject |-> inputObject]
  /\ phase' = ServerPhase(kind, inputObject)
  /\ UNCHANGED <<storeVars, memVars, pipeVars, pre>>

ServeQuery == \E i \in Ids : Serve("query", << <<i>> >>)

ServeUpsert ==
  \E i \in Ids, t \in Texts :
    \/ Serve("upsert", << <<i, t>> >>)
    \/ \E s \in StreetLists : Serve("upsert", << <<i, t, s>> >>)

ServeDelete == \E i \in Ids : Serve("delete", << <<i, None>> >>)

ServeAllocate ==
  /\ nextSquareId < MaxServerNextId
  /\ \/ Serve("allocate", << <<NullId>> >>)
     \/ Serve("allocate", << <<NullId, "a">> >>)
     \/ Serve("allocate", << <<NullId, "a", << <<"l", 0>> >>>> >>)

ServeListAll == Serve("list", <<>>)

\* a batch of two operations in one request line
ServeBatch ==
  \E i \in Ids, j \in Ids :
    Serve("batch", << <<i, None>>, <<j, "b">> >>)

\* interpretLine with every undecodable line fatal, --repl or not
InterpretUndecodableFatal(sv) ==
  [sv EXCEPT !.running = FALSE, !.resultingSquares = <<>>, !.returnValues = <<>>]

\* interpretLine, lines 42-50: a line json.loads rejects is printed and
\* skipped under --repl and ends the process otherwise; nothing is answered
InterpretUndecodable(sv) ==
  [sv EXCEPT !.running = sv.repl, !.resultingSquares = <<>>, !.returnValues = <<>>]

ServeUndecodable ==
  /\ running
  /\ \E sv \in {InterpretUndecodable(Server)} : SetServer(sv)
  /\ lastOp' = [name |-> "undecodable", printed |-> repl]
  /\ phase' = IF repl THEN [step |-> "skipped"] ELSE NoPhase
  /\ UNCHANGED <<storeVars, memVars, pipeVars, pre>>

NextServer ==
  \/ ServeQuery \/ ServeUpsert \/ ServeDelete
  \/ ServeAllocate \/ ServeListAll \/ ServeBatch

SpecServer == InitServer /\ [][NextServer]_vars

(***************************************************************************)
(* One server and the ids its allocations have handed out: `pre` holds the *)
(* id of the last answered allocation and the ids deleted so far.          *)
(***************************************************************************)
NoAllocations == [allocated |-> NullId, deletedIds |-> {}]

\* what the answer to one single-operation request adds to that history
Track(sv, kind, inputObject) ==
  IF kind = "allocate" /\ sv.running
  THEN [pre EXCEPT !.allocated = sv.resultingSquares[1][1]]
  ELSE IF kind = "delete" /\ sv.running /\ sv.returnValues[1][2] = None
  THEN [pre EXCEPT !.deletedIds = @ \cup {inputObject[1][1]}]
  ELSE pre

InitAlloc ==
  /\ \E lines \in Files, isHttp \in BOOLEAN :
       LET sv == StartServer(lines, isHttp)
       IN /\ graph = sv.graph
          /\ streetsByDestination = sv.streetsByDestination
          /\ nextSquareId = sv.nextSquareId
          /\ readonly = sv.readonly
          /\ running = sv.running
          /\ repl = sv.repl
          /\ resultingSquares = sv.resultingSquares
          /\ returnValues = sv.returnValues
  /\ NoStore /\ NoMem /\ NoPipes
  /\ lastOp = NoOp /\ phase = NoPhase /\ pre = NoAllocations

ServeTracked(kind, inputObject) ==
  /\ running
  /\ \E sv \in {InterpretLine(Server, inputObject)} :
       /\ ServerBounded(sv)
       /\ SetServer(sv)
       /\ pre' = Track(sv, kind, inputObject)
  /\ lastOp' = [name |-> kind, inputObject |-> inputObject]
  /\ phase' = NoPhase
  /\ UNCHANGED <<storeVars, memVars, pipeVars>>

TrackedQuery == \E i \in 0 .. MaxAllocId : ServeTracked("query", << <<i>> >>)

TrackedUpsert ==
  \E i \in 0 .. MaxAllocId, s \in StreetLists : ServeTracked("upsert", << <<i, "a", s>> >>)

TrackedDelete == \E i \in 0 .. MaxAllocId : ServeTracked("delete", << <<i, None>> >>)

TrackedAllocate ==
  /\ nextSquareId <= MaxAllocId
  /\ \/ ServeTracked("allocate", << <<NullId>> >>)
     \/ ServeTracked("allocate", << <<NullId, "a">> >>)

NextAlloc == TrackedQuery \/ TrackedUpsert \/ TrackedDelete \/ TrackedAllocate

SpecAlloc == InitAlloc /\ [][NextAlloc]_vars

(***************************************************************************)
(* serve: the loop of the server process, step by step, with the clients   *)
(* that write request lines to its stdin.  phase is where the loop stands; *)
(* `pre` holds how many lines have arrived, which request each client is   *)
(* waiting for, and what interpretLine makes of the line being served when *)
(* nothing else happens in between.                                        *)
(***************************************************************************)
Clients == 1 .. MaxClients

\* the request lines the clients send: batches, a query, an allocation
PipeRequests ==
  { << <<1, "a", <<>>>>, <<0, "b">> >>,
    << <<1, None>>, <<NullId, "a">> >>,
    << <<0, "a", << <<"l", 1>> >>>> >>,
    << <<1>> >> }

Idle == [step |-> "idle"]

InitPipe ==
  /\ \E lines \in {<<>>, << <<0, "a", <<>>>>, <<1, "b", << <<"l", 0>> >>>> >>} :
       LET sv == StartServer(lines, FALSE)
       IN /\ graph = sv.graph
          /\ streetsByDestination = sv.streetsByDestination
          /\ nextSquareId = sv.nextSquareId
          /\ readonly = sv.readonly
          /\ running = sv.running
          /\ repl = sv.repl
          /\ resultingSquares = sv.resultingSquares
          /\ returnValues = sv.returnValues
  /\ NoStore /\ NoMem /\ NoPipes
  /\ lastOp = NoOp
  /\ phase = Idle
  /\ pre = [arrived |-> 0, waiting |-> [c \in Clients |-> 0], atomic |-> EmptyServer]

\* TextGraphServer.send, lines 108-111: a client that is not waiting for an
\* answer writes one request line
PipeSend(client, request) ==
  /\ pre.waiting[client] = 0
  /\ pre.arrived < MaxRequests
  /\ stdin' = Append(stdin, [no |-> pre.arrived + 1, client |-> client, request |-> request])
  /\ pre' = [pre EXCEPT !.arrived = @ + 1, !.waiting[client] = pre.arrived + 1]
  /\ lastOp' = [name |-> "send", client |-> client]
  /\ UNCHANGED <<serverVars, storeVars, memVars, stdout, phase>>

\* TextGraphServer.send, lines 112-113: the client reads its two lines
PipeReceive(client) ==
  /\ pre.waiting[client] # 0
  /\ \E k \in DOMAIN stdout : stdout[k].no = pre.waiting[client] /\ stdout[k].line = 2
  /\ pre' = [pre EXCEPT !.waiting[client] = 0]
  /\ lastOp' = [name |-> "receive", client |-> client]
  /\ UNCHANGED <<serverVars, storeVars, memVars, pipeVars, phase>>

\* the loop reads a line whatever it is doing
CanReadAnytime(p) == TRUE

\* serve, line 161: the next line is read when interpretLine has returned
CanRead(p) == p.step = "idle"

\* lines 161, 43-66: read one line, decode it, empty the two result lists
PipeReadLine ==
  /\ running
  /\ CanRead(phase)
  /\ stdin # <<>>
  /\ phase' = [step |-> "interpreting", no |-> Head(stdin).no,
               squares |-> Head(stdin).request]
  /\ stdin' = Tail(stdin)
  /\ resultingSquares' = <<>>
  /\ returnValues' = <<>>
  /\ pre' = [pre EXCEPT !.atomic = InterpretLine(Server, Head(stdin).request)]
  /\ lastOp' = [name |-> "readline"]
  /\ UNCHANGED <<graph, streetsByDestination, nextSquareId, readonly, running, repl,
                 storeVars, memVars, stdout>>

\* lines 76-135: one turn of the loop over the operations of the line
PipeInterpretSquare ==
  /\ running
  /\ phase.step = "interpreting"
  /\ phase.squares # <<>>
  /\ \E sv \in {InterpretSquare(Server, Head(phase.squares))} : SetServer(sv)
  /\ phase' = [phase EXCEPT !.squares = Tail(@)]
  /\ lastOp' = [name |-> "interpret"]
  /\ UNCHANGED <<storeVars, memVars, pipeVars, pre>>

\* lines 137-138: the first response line is written and flushed
PipeWriteSquares ==
  /\ running
  /\ phase.step = "interpreting"
  /\ phase.squares = <<>>
  /\ stdout' = Append(stdout, [no |-> phase.no, line |-> 1, value |-> resultingSquares])
  /\ phase' = [step |-> "flushed", no |-> phase.no]
  /\ lastOp' = [name |-> "write"]
  /\ UNCHANGED <<serverVars, storeVars, memVars, stdin, pre>>

\* lines 139-140: the second response line; interpretLine returns
PipeWriteValues ==
  /\ running
  /\ phase.step = "flushed"
  /\ stdout' = Append(stdout, [no |-> phase.no, line |-> 2, value |-> returnValues])
  /\ phase' = Idle
  /\ lastOp' = [name |-> "write"]
  /\ UNCHANGED <<serverVars, storeVars, memVars, stdin, pre>>

NextPipe ==
  \/ \E client \in Clients, request \in PipeRequests : PipeSend(client, request)
  \/ \E client \in Clients : PipeReceive(client)
  \/ PipeReadLine
  \/ PipeInterpretSquare
  \/ PipeWriteSquares
  \/ PipeWriteValues

SpecPipe == InitPipe /\ [][NextPipe]_vars

\* a writable server started with or without --repl, fed single operations
\* and undecodable lines
InitRepl ==
  /\ \E lines \in Files, isRepl \in BOOLEAN :
       LET sv == [StartServer(lines, FALSE) EXCEPT !.repl = isRepl]
       IN /\ graph = sv.graph
          /\ streetsByDestination = sv.streetsByDestination
          /\ nextSquareId = sv.nextSquareId
          /\ readonly = sv.readonly
          /\ running = sv.running
          /\ repl = sv.repl
          /\ resultingSquares = sv.resultingSquares
          /\ returnValues = sv.returnValues
  /\ NoStore /\ NoMem /\ NoPipes
  /\ lastOp = NoOp /\ phase = NoPhase /\ pre = NoPre

NextRepl ==
  \/ ServeUndecodable \/ ServeQuery \/ ServeUpsert \/ ServeDelete

SpecRepl == InitRepl /\ [][NextRepl]_vars

(***************************************************************************)
(* textgraph.py: the server-backed store.  A Square is modelled by its     *)
(* squareId, text and streets (a Street by [name, destination], which is   *)
(* all its __eq__ compares); incommingStreets is kept where it is read.    *)
(***************************************************************************)
Square(squareId, text, streets) ==
  [squareId |-> squareId, text |-> text, streets |-> streets]

\* Square.list
SquareList(square) == <<square.squareId, square.text, square.streets>>

Min(a, b) == IF a < b THEN a ELSE b

\* getSquareFromList: zip() stops at the shorter of streets and permissions,
\* and the characters of a status string pair with no street at all
getSquareFromList(square, permissions) ==
  LET streetsAsLists == square[3]
      n == IF permissions[2] = DoesNotExist THEN 0
           ELSE Min(Len(streetsAsLists), Len(permissions[3]))
  IN [squareId |-> square[1], text |-> square[2],
      streets |-> SubSeq(streetsAsLists, 1, n),
      incommingStreets |-> square[4]]

\* TextGraphServer.send: one request line, two response lines
Send(sv, query) == InterpretLine(sv, query)

\* TextGraph.__getitem__: the square read, and the server after the request
GetItem(sv, key) ==
  LET sv1 == Send(sv, << <<key>> >>)
  IN [sv |-> sv1,
      square |-> getSquareFromList(sv1.resultingSquares[1], sv1.returnValues[1])]

\* TextGraph.__setitem__ and __delitem__
SetItem(sv, square) == Send(sv, <<SquareList(square)>>)
DelItem(sv, key) == SetItem(sv, Square(key, None, <<>>))

\* the store without its incommingStreets attribute, as a transaction keeps it
Plain(square) == Square(square.squareId, square.text, square.streets)

\* applyChanges, lines 167-173: read the previous state of every staged square
RECURSIVE ReadPrevStates(_, _, _)
ReadPrevStates(sv, staged, didNow) ==
  IF staged = <<>> THEN [sv |-> sv, didNow |-> didNow]
  ELSE LET r == GetItem(sv, Head(staged).squareId)
       IN ReadPrevStates(r.sv, Tail(staged),
                         Append(didNow, <<Plain(r.square), Head(staged)>>))

\* Differs that compares the streets and not the text
DiffersStreetsOnly(pair) ==
  \/ pair[2].text = None
  \/ pair[1].streets # pair[2].streets

\* applyChanges, lines 169-171: the staged square is not its previous state,
\* or it is a tombstone
Differs(pair) ==
  \/ pair[2].text = None
  \/ ~(pair[1].text = pair[2].text /\ pair[1].streets = pair[2].streets)

\* TextGraph.json (getter): list every key, then read every square
RECURSIVE ReadKeys(_, _)
ReadKeys(sv, keys) ==
  IF keys = <<>> THEN sv ELSE ReadKeys(GetItem(sv, Head(keys)).sv, Tail(keys))

ReadAll(sv) ==
  LET listed == Send(sv, <<>>)
  IN ReadKeys(listed, [i \in DOMAIN listed.resultingSquares |-> listed.resultingSquares[i][1]])

\* TextGraph.applyChanges on the store c = [sv, stagedSquares, done, undone, edited]
ApplyChangesClient(c) ==
  IF c.sv.readonly
  THEN [c EXCEPT !.stagedSquares = <<>>] @@
       [didSomething |-> FALSE, handlerCalls |-> 0, savedDraft |-> FALSE]
  ELSE
    LET r == ReadPrevStates(c.sv, c.stagedSquares, <<>>)
        didSomething == \E i \in DOMAIN r.didNow : Differs(r.didNow[i])
        sent == Send(r.sv, [i \in DOMAIN c.stagedSquares |-> SquareList(c.stagedSquares[i])])
        newDone == Append(c.done, r.didNow)
        draft == Len(newDone) % 5 = 0
    IN IF didSomething
       THEN [sv |-> IF draft THEN ReadAll(sent) ELSE sent,
             stagedSquares |-> <<>>, done |-> newDone, undone |-> <<>>,
             edited |-> TRUE,
             didSomething |-> TRUE, handlerCalls |-> 1, savedDraft |-> draft]
       ELSE [c EXCEPT !.sv = r.sv] @@
            [didSomething |-> FALSE, handlerCalls |-> 0, savedDraft |-> FALSE]

\* RestorePrev that stops after the first pair of the transaction
RestorePrevFirstPairOnly(sv, transaction) ==
  IF transaction = <<>> THEN sv
  ELSE LET prevState == Head(transaction)[1]
           set == SetItem(sv, prevState)
       IN IF prevState.text = None THEN DelItem(set, prevState.squareId) ELSE set

\* undo, lines 190-193: put every previous state back, first pair first
RECURSIVE RestorePrev(_, _)
RestorePrev(sv, transaction) ==
  IF transaction = <<>> THEN sv
  ELSE LET prevState == Head(transaction)[1]
           set == SetItem(sv, prevState)
       IN RestorePrev(IF prevState.text = None THEN DelItem(set, prevState.squareId) ELSE set,
                      Tail(transaction))

\* undo that sets the edited flag before it looks at the stack
UndoClientMarksEdited(c) ==
  IF c.done = <<>> THEN [c EXCEPT !.edited = TRUE] @@ [popped |-> FALSE, handlerCalls |-> 0]
  ELSE LET transaction == c.done[Len(c.done)]
       IN [sv |-> RestorePrev(c.sv, transaction),
           stagedSquares |-> c.stagedSquares,
           done |-> SubSeq(c.done, 1, Len(c.done) - 1),
           undone |-> Append(c.undone, transaction),
           edited |-> TRUE, popped |-> TRUE, handlerCalls |-> 1]

UndoClient(c) ==
  IF c.done = <<>> THEN c @@ [popped |-> FALSE, handlerCalls |-> 0]
  ELSE LET transaction == c.done[Len(c.done)]
       IN [sv |-> RestorePrev(c.sv, transaction),
           stagedSquares |-> c.stagedSquares,
           done |-> SubSeq(c.done, 1, Len(c.done) - 1),
           undone |-> Append(c.undone, transaction),
           edited |-> TRUE, popped |-> TRUE, handlerCalls |-> 1]

\* redo, lines 203-207: write every new state again, first pair first
RECURSIVE RestorePost(_, _)
RestorePost(sv, transaction) ==
  IF transaction = <<>> THEN sv
  ELSE LET postState == Head(transaction)[2]
       IN RestorePost(IF postState.text # None THEN SetItem(sv, postState)
                      ELSE DelItem(sv, postState.squareId),
                      Tail(transaction))

RedoClient(c) ==
  IF c.undone = <<>> THEN c @@ [popped |-> FALSE, handlerCalls |-> 0]
  ELSE LET transaction == c.undone[Len(c.undone)]
       IN [sv |-> RestorePost(c.sv, transaction),
           stagedSquares |-> c.stagedSquares,
           done |-> Append(c.done, transaction),
           undone |-> SubSeq(c.undone, 1, Len(c.undone) - 1),
           edited |-> TRUE, popped |-> TRUE, handlerCalls |-> 1]

\* getDeleteSquareChanges: a Street never equals an int, so the test of line
\* 227 passes for every incoming street and each one contributes a change
RECURSIVE OriginChanges(_, _, _, _)
OriginChanges(sv, incomming, squareId, changes) ==
  IF incomming = <<>> THEN [sv |-> sv, changes |-> changes]
  ELSE LET r == GetItem(sv, Head(incomming)[1])
           trimmed == Square(r.square.squareId, r.square.text,
                             SelectSeq(r.square.streets, LAMBDA street : street[2] # squareId))
       IN OriginChanges(r.sv, Tail(incomming), squareId, Append(changes, trimmed))

getDeleteSquareChanges(sv, squareId) ==
  LET r == GetItem(sv, squareId)
      o == OriginChanges(r.sv, r.square.incommingStreets, squareId, <<>>)
  IN [sv |-> o.sv, changes |-> Append(o.changes, Square(squareId, None, <<>>))]

\* deleteSquare: stageSquareForDeletion, then applyChanges
DeleteSquareClient(c, squareId) ==
  LET d == getDeleteSquareChanges(c.sv, squareId)
  IN ApplyChangesClient([c EXCEPT !.sv = d.sv,
                                  !.stagedSquares = c.stagedSquares \o d.changes])

(***************************************************************************)
(* The server-backed store as a state machine.                             *)
(***************************************************************************)
Client ==
  [sv |-> Server, stagedSquares |-> stagedSquares, done |-> done,
   undone |-> undone, edited |-> edited]

\* send() has read both response lines by the time a store operation returns
Consumed(sv) == [sv EXCEPT !.resultingSquares = <<>>, !.returnValues = <<>>]

SetClient(c) ==
  /\ SetServer(Consumed(c.sv))
  /\ stagedSquares' = c.stagedSquares
  /\ done' = c.done
  /\ undone' = c.undone
  /\ edited' = c.edited

\* the graph dict as a mapping: id -> [id, text, streets]
AsMap(g) == [k \in Keys(g) |-> Get(g, k)]

\* the fields the redo of a round trip has to bring back: the state right
\* after the commit, kept after the undo that follows it
ClientPre ==
  [graph |-> AsMap(graph), streetsByDestination |-> streetsByDestination,
   done |-> done, undone |-> undone]

\* what is kept of the state a commit started from: the squares, the undo
\* stack and how many transactions the redo stack held
AppliedPre == [graph |-> AsMap(graph), done |-> done, redoDepth |-> Len(undone)]

Remember(nextPhase) ==
  IF nextPhase.step = "applied" THEN AppliedPre
  ELSE IF nextPhase.step = "undone" THEN ClientPre
  ELSE NoPre

\* where an operation stands in an apply / undo / redo round trip, and the
\* operation (by) that committed the transaction the round trip is about
NextPhase(op, acted) ==
  IF ~acted THEN NoPhase
  ELSE IF op.name \in {"applyChanges", "deleteSquare"} THEN [step |-> "applied", by |-> op]
  ELSE IF op.name = "undo" /\ phase.step = "applied" THEN [step |-> "undone", by |-> phase.by]
  ELSE IF op.name = "redo" /\ phase.step = "undone" THEN [step |-> "redone", by |-> phase.by]
  ELSE NoPhase

\* the file the store's server is started on, always writable
ClientFiles ==
  { << <<0, "a", << <<"l", 1>>, <<"m", 0>> >>>>,
       <<1, "b", << <<"m", 1>>, <<"l", 0>> >>>> >> }

\* squares the callers stage: an edit of square 1 and its tombstone
StagedChoices ==
  { Square(1, "a", <<>>), Square(1, None, <<>>) }

InitClient ==
  /\ \E lines \in ClientFiles :
       LET sv == StartServer(lines, FALSE)
       IN /\ graph = sv.graph
          /\ streetsByDestination = sv.streetsByDestination
          /\ nextSquareId = sv.nextSquareId
          /\ readonly = sv.readonly
          /\ running = sv.running
          /\ repl = sv.repl
          /\ resultingSquares = sv.resultingSquares
          /\ returnValues = sv.returnValues
  /\ NoStore /\ NoMem /\ NoPipes
  /\ lastOp = NoOp /\ phase = NoPhase /\ pre = NoPre

StageSquare(square) ==
  /\ running
  /\ Len(stagedSquares) < MaxStaged
  /\ stagedSquares' = Append(stagedSquares, square)
  /\ lastOp' = [name |-> "stageSquare", square |-> square]
  /\ phase' = NoPhase
  /\ pre' = NoPre
  /\ UNCHANGED <<serverVars, done, undone, edited, memVars, pipeVars>>

ApplyChanges ==
  \E c \in {ApplyChangesClient(Client)} :
     /\ running
     /\ Len(c.done) <= MaxDone
     /\ Bounded(c.sv)
     /\ SetClient(c)
     /\ \E op \in {[name |-> "applyChanges", didSomething |-> c.didSomething, handlerCalls |-> c.handlerCalls, savedDraft |-> c.savedDraft]} :
          /\ lastOp' = op
          /\ phase' = NextPhase(op, c.didSomething)
          /\ pre' = Remember(NextPhase(op, c.didSomething))
     /\ UNCHANGED <<memVars, pipeVars>>

Undo ==
  \E c \in {UndoClient(Client)} :
     /\ running
     /\ Bounded(c.sv)
     /\ SetClient(c)
     /\ \E op \in {[name |-> "undo", popped |-> c.popped, handlerCalls |-> c.handlerCalls]} :
          /\ lastOp' = op
          /\ phase' = NextPhase(op, c.popped)
          /\ pre' = Remember(NextPhase(op, c.popped))
     /\ UNCHANGED <<memVars, pipeVars>>

Redo ==
  \E c \in {RedoClient(Client)} :
     /\ running
     /\ Bounded(c.sv)
     /\ SetClient(c)
     /\ \E op \in {[name |-> "redo", popped |-> c.popped, handlerCalls |-> c.handlerCalls]} :
          /\ lastOp' = op
          /\ phase' = NextPhase(op, c.popped)
          /\ pre' = Remember(NextPhase(op, c.popped))
     /\ UNCHANGED <<memVars, pipeVars>>

\* allocSquare: send([None]) and take the id of the answer
AllocSquare ==
  \E sv \in {Send(Server, << <<NullId>> >>)} :
     /\ running
     /\ nextSquareId < MaxNextId
     /\ SetServer(Consumed(sv))
     /\ lastOp' = [name |-> "allocSquare", result |-> sv.resultingSquares[1][1]]
     /\ phase' = NoPhase
     /\ pre' = NoPre
     /\ UNCHANGED <<storeVars, memVars, pipeVars>>

DeleteSquare(squareId) ==
  \E c \in {DeleteSquareClient(Client, squareId)} :
     /\ running
     /\ Len(c.done) <= MaxDone
     /\ Bounded(c.sv)
     /\ SetClient(c)
     /\ \E op \in {[name |-> "deleteSquare", squareId |-> squareId, didSomething |-> c.didSomething, handlerCalls |-> c.handlerCalls, savedDraft |-> c.savedDraft]} :
          /\ lastOp' = op
          /\ phase' = NextPhase(op, c.didSomething)
          /\ pre' = Remember(NextPhase(op, c.didSomething))
     /\ UNCHANGED <<memVars, pipeVars>>

NextClient ==
  \/ \E square \in StagedChoices : StageSquare(square)
  \/ ApplyChanges
  \/ Undo
  \/ Redo
  \/ AllocSquare
  \/ \E squareId \in Ids : DeleteSquare(squareId)

SpecClient == InitClient /\ [][NextClient]_vars

(***************************************************************************)
(* A store that commits one transaction after the other, with undos and    *)
(* redos in between: `pre` counts the transactions committed so far.       *)
(***************************************************************************)
InitDraft ==
  /\ \E lines \in ClientFiles :
       LET sv == StartServer(lines, FALSE)
       IN /\ graph = sv.graph
          /\ streetsByDestination = sv.streetsByDestination
          /\ nextSquareId = sv.nextSquareId
          /\ readonly = sv.readonly
          /\ running = sv.running
          /\ repl = sv.repl
          /\ resultingSquares = sv.resultingSquares
          /\ returnValues = sv.returnValues
  /\ NoStore /\ NoMem /\ NoPipes
  /\ lastOp = NoOp /\ phase = NoPhase /\ pre = [committed |-> 0]

DraftStep(c, op, commits) ==
  /\ SetClient(c)
  /\ lastOp' = op
  /\ pre' = [committed |-> pre.committed + commits]
  /\ UNCHANGED <<memVars, pipeVars, phase>>

\* stageSquare of square 0 with the text it does not have now
DraftStage ==
  /\ stagedSquares = <<>>
  /\ \E text \in {IF Get(graph, 0)[2] = "a" THEN "b" ELSE "a"} :
       DraftStep([Client EXCEPT !.stagedSquares = <<Square(0, text, <<>>)>>],
                 [name |-> "stageSquare"], 0)

DraftApply ==
  /\ pre.committed < MaxCommitted
  /\ \E c \in {ApplyChangesClient(Client)} :
       DraftStep([k \in DOMAIN Client |-> c[k]],
                 [name |-> "applyChanges", didSomething |-> c.didSomething,
                  savedDraft |-> c.savedDraft],
                 IF c.didSomething THEN 1 ELSE 0)

DraftUndo ==
  \E c \in {UndoClient(Client)} :
    DraftStep([k \in DOMAIN Client |-> c[k]], [name |-> "undo", popped |-> c.popped], 0)

DraftRedo ==
  \E c \in {RedoClient(Client)} :
    DraftStep([k \in DOMAIN Client |-> c[k]], [name |-> "redo", popped |-> c.popped], 0)

NextDraft == DraftStage \/ DraftApply \/ DraftUndo \/ DraftRedo

SpecDraft == InitDraft /\ [][NextDraft]_vars

(***************************************************************************)
(* The same store when the snapshot file cannot be opened for writing:     *)
(* open() in saveDraft raises OSError and applyChanges has no handler for  *)
(* it, so the call ends at line 180 with what lines 175-178 have done.     *)
(***************************************************************************)
\* TextGraph.applyChanges, lines 174-180, saveDraft raising at line 367
ApplyChangesDraftFails(c) ==
  LET r == ReadPrevStates(c.sv, c.stagedSquares, <<>>)
      sent == Send(r.sv, [i \in DOMAIN c.stagedSquares |-> SquareList(c.stagedSquares[i])])
  IN [sv |-> sent, stagedSquares |-> <<>>, done |-> Append(c.done, r.didNow),
      undone |-> <<>>, edited |-> c.edited,
      didSomething |-> TRUE, handlerCalls |-> 0, savedDraft |-> FALSE]

\* applyChanges of a commit that is due a snapshot, the write of it failing
DraftApplyFails ==
  /\ pre.committed < MaxCommitted
  /\ \E ok \in {ApplyChangesClient(Client)} :
       /\ ok.savedDraft
       /\ \E c \in {ApplyChangesDraftFails(Client)} :
            DraftStep([k \in DOMAIN Client |-> c[k]],
                      [name |-> "applyChanges", didSomething |-> c.didSomething,
                       savedDraft |-> c.savedDraft, handlerCalls |-> c.handlerCalls,
                       raised |-> "OSError"],
                      1)

NextDraftFails == DraftStage \/ DraftApply \/ DraftUndo \/ DraftRedo \/ DraftApplyFails

SpecDraftFails == InitDraft /\ [][NextDraftFails]_vars

(***************************************************************************)
(* Two clients of one server.  The server answers one request at a time;   *)
(* applyChanges of the first client is a query per staged square (line     *)
(* 168) followed by one batched write (line 176), and a request of the     *)
(* other client can be served between any two of them.  phase is where     *)
(* that applyChanges stands and holds the pairs it has read so far.        *)
(***************************************************************************)
\* squares the first client stages, and squares the other client writes
SharedStaged == { Square(1, "a", <<>>), Square(0, "b", <<>>) }
OtherSquares == { Square(1, "c", <<>>), Square(0, "c", << <<"l", 1>> >>) }

InitShared ==
  /\ \E lines \in ClientFiles :
       LET sv == StartServer(lines, FALSE)
       IN /\ graph = sv.graph
          /\ streetsByDestination = sv.streetsByDestination
          /\ nextSquareId = sv.nextSquareId
          /\ readonly = sv.readonly
          /\ running = sv.running
          /\ repl = sv.repl
          /\ resultingSquares = sv.resultingSquares
          /\ returnValues = sv.returnValues
  /\ NoStore /\ NoMem /\ NoPipes
  /\ lastOp = NoOp /\ phase = Idle /\ pre = NoPre

\* stageSquare, between two calls of the first client; no id is staged twice
SharedStage(square) ==
  /\ phase = Idle
  /\ Len(stagedSquares) < MaxSharedStaged
  /\ \A i \in DOMAIN stagedSquares : stagedSquares[i].squareId # square.squareId
  /\ stagedSquares' = Append(stagedSquares, square)
  /\ lastOp' = [name |-> "stageSquare", square |-> square]
  /\ UNCHANGED <<serverVars, done, undone, edited, memVars, pipeVars, phase, pre>>

\* applyChanges, lines 167-173: one turn of the loop, the query of the next
\* staged square; after the last turn the call goes on to the write when a
\* pair differs, and returns otherwise
SharedApplyRead ==
  /\ phase.step \in {"idle", "reading"}
  /\ phase = Idle => stagedSquares # <<>> /\ Len(done) < MaxSharedDone
  /\ \E didNow \in {IF phase = Idle THEN <<>> ELSE phase.didNow} :
       \E r \in {GetItem(Server, stagedSquares[Len(didNow) + 1].squareId)} :
         \E read \in {Append(didNow, <<Plain(r.square), stagedSquares[Len(didNow) + 1]>>)} :
           /\ SetServer(Consumed(r.sv))
           /\ phase' = IF Len(read) < Len(stagedSquares)
                       THEN [step |-> "reading", didNow |-> read]
                       ELSE IF \E i \in DOMAIN read : Differs(read[i])
                       THEN [step |-> "read", didNow |-> read]
                       ELSE Idle
           /\ lastOp' = [name |-> "applyRead", squareId |-> r.square.squareId]
  /\ UNCHANGED <<storeVars, memVars, pipeVars, pre>>

\* applyChanges, lines 174-182: the batched write and the commit
SharedApplyWrite ==
  /\ phase.step = "read"
  /\ \E sv \in {Send(Server, [i \in DOMAIN stagedSquares |-> SquareList(stagedSquares[i])])} :
       /\ Bounded(sv)
       /\ SetServer(Consumed(sv))
  /\ stagedSquares' = <<>>
  /\ done' = Append(done, phase.didNow)
  /\ undone' = <<>>
  /\ edited' = TRUE
  /\ phase' = Idle
  /\ lastOp' = [name |-> "applyWrite"]
  /\ UNCHANGED <<memVars, pipeVars, pre>>

\* undo of the first client, between two of its calls
SharedUndo ==
  /\ phase = Idle
  /\ \E c \in {UndoClient(Client)} :
       /\ Bounded(c.sv)
       /\ SetClient(c)
       /\ lastOp' = [name |-> "undo", popped |-> c.popped]
  /\ UNCHANGED <<memVars, pipeVars, phase, pre>>

\* store[id] = square of the other client: one request, served at any time
OtherWrite(square) ==
  /\ \E sv \in {SetItem(Server, square)} :
       /\ Bounded(sv)
       /\ SetServer(Consumed(sv))
  /\ lastOp' = [name |-> "otherWrite", square |-> square]
  /\ UNCHANGED <<storeVars, memVars, pipeVars, phase, pre>>

NextShared ==
  \/ \E square \in SharedStaged : SharedStage(square)
  \/ SharedApplyRead
  \/ SharedApplyWrite
  \/ SharedUndo
  \/ \E square \in OtherSquares : OtherWrite(square)

SpecShared == InitShared /\ [][NextShared]_vars

(***************************************************************************)
(* textgraph.py: __neighborhood, the squares around a center.              *)
(***************************************************************************)
\* self[key] that writes an empty text to the square it reads
HoodGetWriting(sv, key) ==
  LET sv1 == Send(sv, << <<key, "">> >>)
  IN IF ~sv1.running \/ Len(sv1.resultingSquares[1]) # 4
     THEN [sv |-> sv1, raised |-> TRUE, square |-> Square(key, None, <<>>)]
     ELSE [sv |-> sv1, raised |-> FALSE,
           square |-> getSquareFromList(sv1.resultingSquares[1], sv1.returnValues[1])]

\* self[key]: raises when the server has ended without an answer, and when
\* the answer has three components (line 93 unpacks four)
HoodGet(sv, key) ==
  LET sv1 == Send(sv, << <<key>> >>)
  IN IF ~sv1.running \/ Len(sv1.resultingSquares[1]) # 4
     THEN [sv |-> sv1, raised |-> TRUE, square |-> Square(key, None, <<>>)]
     ELSE [sv |-> sv1, raised |-> FALSE,
           square |-> getSquareFromList(sv1.resultingSquares[1], sv1.returnValues[1])]

\* the value of an expression, computed once: One({F(r) : r \in {e}})
One(S) == CHOOSE x \in S : TRUE

\* reads of a list of keys, in order, on h = [sv, raised, squares]: the
\* first half of the list, then the second half on what the first left
RECURSIVE ReadSquares(_, _)
ReadSquares(h, keys) ==
  IF keys = <<>> \/ h.raised THEN h
  ELSE IF Len(keys) = 1
  THEN One({ [sv |-> r.sv, raised |-> r.raised,
              squares |-> IF r.raised THEN h.squares ELSE Append(h.squares, r.square)] :
             r \in {HoodGet(h.sv, keys[1])} })
  ELSE One({ ReadSquares(h2, SubSeq(keys, (Len(keys) \div 2) + 1, Len(keys))) :
             h2 \in {ReadSquares(h, SubSeq(keys, 1, Len(keys) \div 2))} })

\* lines 318-323: per square of the edge, the destinations of its streets
\* and then the origins of its incoming streets
RECURSIVE NeighborKeys(_)
NeighborKeys(edge) ==
  IF edge = <<>> THEN <<>>
  ELSE LET square == Head(edge)
       IN [i \in DOMAIN square.streets |-> square.streets[i][2]]
          \o [i \in DOMAIN square.incommingStreets |-> square.incommingStreets[i][1]]
          \o NeighborKeys(Tail(edge))

\* lines 316-324, on h = [sv, raised, edge, ids]: one round per level
RECURSIVE BuildNeighborhood(_, _)
BuildNeighborhood(h, level) ==
  IF level = 0 \/ h.raised THEN h
  ELSE One({ BuildNeighborhood(h2, level - 1) :
               h2 \in { [sv |-> r.sv, raised |-> r.raised, edge |-> r.squares,
                         ids |-> h.ids \cup {h.edge[i].squareId : i \in DOMAIN h.edge}] :
                        r \in {ReadSquares([sv |-> h.sv, raised |-> FALSE, squares |-> <<>>],
                                           NeighborKeys(h.edge))} } })

\* a set of small ints is iterated in ascending order
RECURSIVE Ascending(_)
Ascending(ids) ==
  IF ids = {} THEN <<>>
  ELSE LET least == CHOOSE i \in ids : \A j \in ids : i <= j
       IN <<least>> \o Ascending(ids \ {least})

\* line 329 without the test of the destination
KeepAllStreets(streets, ids) == streets

\* line 329: the streets that stay inside the neighborhood
KeepStreets(streets, ids) == SelectSeq(streets, LAMBDA street : street[2] \in ids)

\* lines 326-331, on the ids collected: every square read again and trimmed
FinalNeighborhood(built) ==
  One({ [sv |-> final.sv, raised |-> final.raised, ids |-> built.ids,
         squares |-> IF final.raised THEN <<>>
                     ELSE [i \in DOMAIN final.squares |->
                             Square(final.squares[i].squareId, final.squares[i].text,
                                    KeepStreets(final.squares[i].streets, built.ids))]] :
          final \in {ReadSquares([sv |-> built.sv, raised |-> built.raised, squares |-> <<>>],
                                 Ascending(built.ids))} })

\* __neighborhood: [sv, raised, ids, squares]
Neighborhood(sv, center, level) ==
  One({ FinalNeighborhood(built) :
          built \in { BuildNeighborhood([sv |-> first.sv, raised |-> first.raised,
                                         edge |-> IF first.raised THEN <<>>
                                                  ELSE <<first.square>>,
                                         ids |-> {}], level) :
                      first \in {HoodGet(sv, center)} } })

(***************************************************************************)
(* A store whose neighborhoods are asked for, between edits.               *)
(***************************************************************************)
HoodFiles ==
  { << <<0, "a", << <<"l", 1>>, <<"m", 0>> >>>>,
       <<1, "b", << <<"m", 1>>, <<"l", 0>> >>>> >>,
    << <<0, "a", << <<"l", 1>> >>>>, <<1, "b", << <<"l", 2>> >>>>,
       <<2, "c", << <<"l", 3>> >>>>, <<3, "d", <<>>>> >> }

InitHood ==
  /\ \E lines \in HoodFiles, isHttp \in BOOLEAN :
       LET sv == StartServer(lines, isHttp)
       IN /\ graph = sv.graph
          /\ streetsByDestination = sv.streetsByDestination
          /\ nextSquareId = sv.nextSquareId
          /\ readonly = sv.readonly
          /\ running = sv.running
          /\ repl = sv.repl
          /\ resultingSquares = sv.resultingSquares
          /\ returnValues = sv.returnValues
  /\ NoStore /\ NoMem /\ NoPipes
  /\ lastOp = NoOp /\ phase = NoPhase /\ pre = NoPre

HoodStep(c, op) ==
  /\ SetClient(c)
  /\ lastOp' = op
  /\ UNCHANGED <<memVars, pipeVars, phase, pre>>

\* dot(neighborhoodCenter = center, neighborhoodLevel = level)
Hood(center, level) ==
  /\ running
  /\ \E r \in {Neighborhood(Server, center, level)} :
       HoodStep([Client EXCEPT !.sv = r.sv],
                [name |-> "neighborhood", center |-> center, level |-> level,
                 raised |-> r.raised, squares |-> r.squares])

\* stageSquare of an edit of square 0
HoodStage ==
  /\ running
  /\ Len(stagedSquares) < MaxHoodStaged
  /\ HoodStep([Client EXCEPT !.stagedSquares = Append(@, Square(0, "c", <<>>))],
              [name |-> "stageSquare"])

HoodApply ==
  /\ running
  /\ Len(done) < MaxHoodDone
  /\ \E c \in {ApplyChangesClient(Client)} :
       HoodStep([k \in DOMAIN Client |-> c[k]],
                [name |-> "applyChanges", didSomething |-> c.didSomething])

HoodUndo ==
  /\ running
  /\ \E c \in {UndoClient(Client)} :
       HoodStep([k \in DOMAIN Client |-> c[k]], [name |-> "undo", popped |-> c.popped])

\* del store[key]
HoodDelete(key) ==
  /\ running
  /\ HoodStep([Client EXCEPT !.sv = DelItem(Server, key)], [name |-> "delete", key |-> key])

NextHood ==
  \/ \E center \in 0 .. MaxCenter, level \in 0 .. MaxLevel : Hood(center, level)
  \/ HoodStage
  \/ HoodApply
  \/ HoodUndo
  \/ \E key \in 1 .. MaxCenter : HoodDelete(key)

SpecHood == InitHood /\ [][NextHood]_vars

(***************************************************************************)
(* textgraph.py: the file round trip.  A file is its header lines and its  *)
(* record lines; a record line is [squareId, text, streets, separators],   *)
(* separators being what stands between the items of its JSON lists.       *)
(***************************************************************************)
\* json.dumps: the separators of every line it writes
DumpsSeparators == ", "

\* json.loads of a record line: the separators are not part of the value
Loads(line) == <<line.squareId, line.text, line.streets>>

\* json.dumps([square.squareId, square.text, square.streets])
Dumps(square) ==
  [squareId |-> square.squareId, text |-> square.text, streets |-> square.streets,
   separators |-> DumpsSeparators]

\* str(int) as character codes
RECURSIVE Digits(_)
Digits(n) == IF n < 10 THEN <<48 + n>> ELSE Append(Digits(n \div 10), 48 + (n % 10))

\* str((squareId, square)) up to the comma after the id: "(", the digits, ","
\* (the ids of a dict differ, so two keys differ no later than there)
ItemKey(squareId) == <<40>> \o Digits(squareId) \o <<44>>

\* str.__lt__: the first differing character decides, a proper prefix is less
RECURSIVE StrLess(_, _)
StrLess(a, b) ==
  IF b = <<>> THEN FALSE
  ELSE IF a = <<>> THEN TRUE
  ELSE IF Head(a) # Head(b) THEN Head(a) < Head(b)
  ELSE StrLess(Tail(a), Tail(b))

\* sorted_items: sorted(self.items(), key=str), a stable sort
RECURSIVE InsertItem(_, _)
InsertItem(sorted, square) ==
  IF sorted = <<>> THEN <<square>>
  ELSE IF StrLess(ItemKey(square.squareId), ItemKey(Head(sorted).squareId))
  THEN <<square>> \o sorted
  ELSE <<Head(sorted)>> \o InsertItem(Tail(sorted), square)

RECURSIVE SortItems(_)
SortItems(items) ==
  IF items = <<>> THEN <<>> ELSE InsertItem(SortItems(SubSeq(items, 1, Len(items) - 1)),
                                            items[Len(items)])

\* TextGraph.__init__, line 123: the header of a store; nothing assigns it again
Header == <<>>

\* self.items(): the keys of one [] request, each read by a request of its own
RECURSIVE Items(_, _, _)
Items(sv, keys, items) ==
  IF keys = <<>> THEN [sv |-> sv, items |-> items]
  ELSE LET r == GetItem(sv, Head(keys))
       IN Items(r.sv, Tail(keys), Append(items, Plain(r.square)))

\* TextGraph.json (getter): the header, then one line per sorted item
JsonGetter(sv) ==
  LET listed == Send(sv, <<>>)
      read == Items(listed, [i \in DOMAIN listed.resultingSquares |->
                               listed.resultingSquares[i][1]], <<>>)
      sorted == SortItems(read.items)
  IN [sv |-> read.sv,
      json |-> [header |-> Header, records |-> [i \in DOMAIN sorted |-> Dumps(sorted[i])]]]

\* the server process reading the file: blank and comment lines are skipped
LoadFile(file) ==
  StartServer([i \in DOMAIN file.records |-> Loads(file.records[i])], FALSE)

\* the empty file open(self.filename, "w") leaves before anything is written
Truncated == [header |-> <<>>, records |-> <<>>]

\* save (writable store): the file is truncated, then self.json is written.
\* loaded tells whether the server process had read the file before that.
SaveFile(sv, file, loaded) ==
  JsonGetter(IF loaded THEN sv ELSE LoadFile(Truncated))

(***************************************************************************)
(* One store opened on a file and saved without an edit.  `pre` holds the  *)
(* file as it was when the store was opened; running is FALSE until the    *)
(* server process has read it.                                             *)
(***************************************************************************)
HeaderLines == {"", "#c"}
FileIds == {0, 2, 10}
Separators == {", ", ","}

SeqsUpTo(S, n) == UNION {[1 .. k -> S] : k \in 0 .. n}

FileRecord(squareId, separators) ==
  [squareId |-> squareId, text |-> "a",
   streets |-> IF squareId = 2 THEN << <<"l", 0>> >> ELSE <<>>,
   separators |-> separators]

\* well-formed id-tagged files: a header, then records of distinct ids
RoundTripFiles ==
  { [header |-> h, records |-> [i \in DOMAIN ids |-> FileRecord(ids[i], sep)]] :
      h \in SeqsUpTo(HeaderLines, MaxHeader),
      ids \in {q \in SeqsUpTo(FileIds, MaxRecords) :
                 q # <<>> /\ \A i, j \in DOMAIN q : i # j => q[i] # q[j]},
      sep \in Separators }

InitFile ==
  /\ \E file \in RoundTripFiles : pre = [file |-> file]
  /\ graph = <<>> /\ streetsByDestination = <<>> /\ nextSquareId = 0
  /\ readonly = FALSE /\ running = FALSE /\ repl = FALSE
  /\ resultingSquares = <<>> /\ returnValues = <<>>
  /\ NoStore /\ NoMem /\ NoPipes
  /\ lastOp = NoOp /\ phase = NoPhase

\* the server process gets to read the file
FileServerStarts ==
  /\ ~running
  /\ lastOp.name = "init"
  /\ SetServer(LoadFile(pre.file))
  /\ lastOp' = [name |-> "started"]
  /\ UNCHANGED <<storeVars, memVars, pipeVars, phase, pre>>

\* TextGraph.save
FileSave ==
  /\ lastOp.name \in {"init", "started"}
  /\ \E r \in {SaveFile(Server, pre.file, running)} :
       /\ SetServer(Consumed(r.sv))
       /\ lastOp' = [name |-> "save", loaded |-> running, written |-> r.json]
  /\ UNCHANGED <<storeVars, memVars, pipeVars, phase, pre>>

NextFile == FileServerStarts \/ FileSave

SpecFile == InitFile /\ [][NextFile]_vars

(***************************************************************************)
(* mge.py (editors-and-viewers): the in-memory store, a list of Square     *)
(* objects indexed by squareId, with a free list of deleted ids.           *)
(* m is the store: [squares, deleted, stagedSquares, done, undone, edited] *)
(***************************************************************************)
At(sqs, squareId) == sqs[squareId + 1]

\* list.remove: the first occurrence goes
RECURSIVE RemoveFirst(_, _)
RemoveFirst(s, x) ==
  IF s = <<>> THEN <<>>
  ELSE IF Head(s) = x THEN Tail(s)
  ELSE <<Head(s)>> \o RemoveFirst(Tail(s), x)

\* json (setter): one square per record line, ids by position
RECURSIVE LoadSquares(_, _)
LoadSquares(sqs, records) ==
  IF records = <<>> THEN sqs
  ELSE LoadSquares(Append(sqs, Square(Len(sqs), Head(records)[1], Head(records)[2])),
                   Tail(records))

\* TextGraph.__init__: the file, or square 0 alone; blank squares are free
StartMem(records, found) ==
  LET sqs == IF found THEN LoadSquares(<<>>, records) ELSE <<Square(0, "", <<>>)>>
      blank == SelectSeq(sqs, LAMBDA square : square.text = None)
  IN [squares |-> sqs,
      deleted |-> [i \in DOMAIN blank |-> blank[i].squareId],
      stagedSquares |-> <<>>, done |-> <<>>, undone |-> <<>>, edited |-> FALSE]

\* trimBlankSquaresFromEnd, on t = [squares, deleted, raised]
RECURSIVE trimBlankSquaresFromEnd(_)
trimBlankSquaresFromEnd(t) ==
  IF t.squares = <<>> THEN [t EXCEPT !.raised = TRUE]          \* line 170: square is unbound
  ELSE LET square == t.squares[Len(t.squares)]
           front == SubSeq(t.squares, 1, Len(t.squares) - 1)
       IN IF square.text # None THEN t
          ELSE IF square.squareId \notin Range(t.deleted)
          THEN [squares |-> front, deleted |-> t.deleted, raised |-> TRUE]   \* line 173: ValueError
          ELSE trimBlankSquaresFromEnd(
                 [squares |-> front, deleted |-> RemoveFirst(t.deleted, square.squareId),
                  raised |-> FALSE])

\* applyChanges, lines 122-132, on a = [squares, deleted, didNow, didSomething]
RECURSIVE ApplyStaged(_, _)
ApplyStaged(a, staged) ==
  IF staged = <<>> THEN a
  ELSE
    LET square == Head(staged)
        freed == IF square.text = None THEN Append(a.deleted, square.squareId)
                 ELSE IF square.squareId \in Range(a.deleted)
                 THEN RemoveFirst(a.deleted, square.squareId)
                 ELSE a.deleted
        prevState == At(a.squares, square.squareId)
        same == prevState.text = square.text /\ prevState.streets = square.streets
    IN ApplyStaged(
         [squares |-> IF same THEN a.squares
                      ELSE [a.squares EXCEPT ![square.squareId + 1] =
                              Square(square.squareId, square.text, square.streets)],
          deleted |-> freed,
          didNow |-> Append(a.didNow, <<prevState, square>>),
          didSomething |-> a.didSomething \/ ~same],
         Tail(staged))

ApplyChangesMem(m) ==
  LET a == ApplyStaged([squares |-> m.squares, deleted |-> m.deleted,
                        didNow |-> <<>>, didSomething |-> FALSE], m.stagedSquares)
      newDone == Append(m.done, a.didNow)
      draft == Len(newDone) % 5 = 0
      t == IF draft
           THEN trimBlankSquaresFromEnd([squares |-> a.squares, deleted |-> a.deleted,
                                         raised |-> FALSE])
           ELSE [squares |-> a.squares, deleted |-> a.deleted, raised |-> FALSE]
  IN IF a.didSomething
     THEN [squares |-> t.squares, deleted |-> t.deleted,
           stagedSquares |-> <<>>, done |-> newDone, undone |-> <<>>,
           edited |-> IF t.raised THEN m.edited ELSE TRUE,
           didSomething |-> TRUE, savedDraft |-> draft /\ ~t.raised]
     ELSE [m EXCEPT !.squares = a.squares, !.deleted = a.deleted] @@
          [didSomething |-> FALSE, savedDraft |-> FALSE]

\* undo, lines 147-150: every previous state is written back, first pair first
RECURSIVE WriteBack(_, _, _)
WriteBack(sqs, transaction, side) ==
  IF transaction = <<>> THEN sqs
  ELSE LET state == Head(transaction)[side]
       IN WriteBack([sqs EXCEPT ![state.squareId + 1] =
                       Square(state.squareId, state.text, state.streets)],
                    Tail(transaction), side)

UndoMem(m) ==
  IF m.done = <<>> THEN m @@ [popped |-> FALSE]
  ELSE LET transaction == m.done[Len(m.done)]
       IN [m EXCEPT !.squares = WriteBack(m.squares, transaction, 1),
                    !.done = SubSeq(m.done, 1, Len(m.done) - 1),
                    !.undone = Append(m.undone, transaction),
                    !.edited = TRUE] @@ [popped |-> TRUE]

RedoMem(m) ==
  IF m.undone = <<>> THEN m @@ [popped |-> FALSE]
  ELSE LET transaction == m.undone[Len(m.undone)]
       IN [m EXCEPT !.squares = WriteBack(m.squares, transaction, 2),
                    !.done = Append(m.done, transaction),
                    !.undone = SubSeq(m.undone, 1, Len(m.undone) - 1),
                    !.edited = TRUE] @@ [popped |-> TRUE]

\* getIncommingStreets: every street of every square that leads to squareId
RECURSIVE getIncommingStreets(_, _)
getIncommingStreets(sqs, squareId) ==
  IF sqs = <<>> THEN <<>>
  ELSE SelectSeq(Head(sqs).streets, LAMBDA street : street[2] = squareId)
       \o getIncommingStreets(Tail(sqs), squareId)

\* getDeleteSquareChanges, lines 200-205: the square copied and trimmed is
\* self[incommingStreet.destination], once per incoming street
getDeleteSquareChangesMem(sqs, squareId) ==
  LET incomming == getIncommingStreets(sqs, squareId)
      trimmed(street) ==
        LET square == At(sqs, street[2])
        IN Square(square.squareId, square.text,
                  SelectSeq(square.streets, LAMBDA st : st[2] # squareId))
  IN Append([i \in DOMAIN incomming |-> trimmed(incomming[i])],
            Square(squareId, None, <<>>))

DeleteSquareMem(m, squareId) ==
  ApplyChangesMem([m EXCEPT !.stagedSquares =
                     m.stagedSquares \o getDeleteSquareChangesMem(m.squares, squareId)])

\* dot, lines 275-279: a vertex declaration per square with text, and for
\* each of those an edge declaration per street, whatever its destination.
\* The description is [labels, edges]: the ids declared, in order, and the
\* <<origin, destination, name>> of the edges, in order.
RECURSIVE DotEdges(_)
DotEdges(sqs) ==
  IF sqs = <<>> THEN <<>>
  ELSE LET square == Head(sqs)
       IN (IF square.text = None THEN <<>>
           ELSE [i \in DOMAIN square.streets |->
                   <<square.squareId, square.streets[i][2], square.streets[i][1]>>])
          \o DotEdges(Tail(sqs))

Dot(sqs) ==
  LET declared == SelectSeq(sqs, LAMBDA square : square.text # None)
  IN [labels |-> [i \in DOMAIN declared |-> declared[i].squareId],
      edges |-> DotEdges(sqs)]

(***************************************************************************)
(* The in-memory store as a state machine.                                 *)
(***************************************************************************)
Mem ==
  [squares |-> squares, deleted |-> deleted, stagedSquares |-> stagedSquares,
   done |-> done, undone |-> undone, edited |-> edited]

SetMem(m) ==
  /\ squares' = m.squares
  /\ deleted' = m.deleted
  /\ stagedSquares' = m.stagedSquares
  /\ done' = m.done
  /\ undone' = m.undone
  /\ edited' = m.edited

MemPre == [squares |-> squares, done |-> done, undone |-> undone]

RememberMem(nextPhase) == IF nextPhase.step \in {"applied", "undone"} THEN MemPre ELSE NoPre

\* positional files the store is opened on (found = FALSE: no such file)
MemFiles ==
  { << <<"a", << <<"l", 1>>, <<"m", 0>> >>>>,
       <<"b", << <<"m", 1>>, <<"l", 0>> >>>> >> }

InitMem ==
  /\ \E found \in BOOLEAN :
       \E records \in (IF found THEN MemFiles ELSE {<<>>}) :
         LET m == StartMem(records, found)
         IN /\ squares = m.squares /\ deleted = m.deleted
            /\ stagedSquares = m.stagedSquares /\ done = m.done
            /\ undone = m.undone /\ edited = m.edited
  /\ graph = <<>> /\ streetsByDestination = <<>> /\ nextSquareId = 0
  /\ readonly = FALSE /\ running = FALSE /\ repl = FALSE
  /\ resultingSquares = <<>> /\ returnValues = <<>>
  /\ lastOp = NoOp /\ phase = NoPhase /\ pre = NoPre
  /\ NoPipes

MemStep(m, op, acted) ==
  /\ Len(m.done) <= MaxDone
  /\ Len(m.deleted) <= MaxDeleted
  /\ SetMem(m)
  /\ lastOp' = op
  /\ phase' = NextPhase(op, acted)
  /\ pre' = RememberMem(NextPhase(op, acted))
  /\ UNCHANGED <<serverVars, pipeVars>>

\* allocSquare: a freed id if there is one, else a new blank square
MemAllocSquare ==
  \/ /\ deleted # <<>>
     /\ MemStep([Mem EXCEPT !.deleted = SubSeq(deleted, 1, Len(deleted) - 1)],
                [name |-> "allocSquare", result |-> deleted[Len(deleted)]], FALSE)
  \/ /\ deleted = <<>>
     /\ Len(squares) < MaxSquares
     /\ MemStep([Mem EXCEPT !.squares = Append(squares, Square(Len(squares), None, <<>>))],
                [name |-> "allocSquare", result |-> Len(squares)], FALSE)

\* stageSquare: the editor stages copies of squares of the list
MemStageSquare(square) ==
  /\ square.squareId < Len(squares)
  /\ Len(stagedSquares) < MaxStagedMem
  /\ MemStep([Mem EXCEPT !.stagedSquares = Append(stagedSquares, square)],
             [name |-> "stageSquare", square |-> square], FALSE)

MemApplyChanges ==
  \E m \in {ApplyChangesMem(Mem)} :
    MemStep([k \in DOMAIN Mem |-> m[k]],
            [name |-> "applyChanges", didSomething |-> m.didSomething,
             savedDraft |-> m.savedDraft], m.didSomething)

MemUndo ==
  \E m \in {UndoMem(Mem)} :
    MemStep([k \in DOMAIN Mem |-> m[k]], [name |-> "undo", popped |-> m.popped], m.popped)

MemRedo ==
  \E m \in {RedoMem(Mem)} :
    MemStep([k \in DOMAIN Mem |-> m[k]], [name |-> "redo", popped |-> m.popped], m.popped)

MemDeleteSquare(squareId) ==
  /\ squareId < Len(squares)
  /\ \E m \in {DeleteSquareMem(Mem, squareId)} :
       MemStep([k \in DOMAIN Mem |-> m[k]],
               [name |-> "deleteSquare", squareId |-> squareId,
                didSomething |-> m.didSomething, savedDraft |-> m.savedDraft],
               m.didSomething)

NextMem ==
  \/ MemAllocSquare
  \/ \E square \in StagedChoices : MemStageSquare(square)
  \/ MemApplyChanges
  \/ MemUndo
  \/ MemRedo
  \/ \E squareId \in Ids : MemDeleteSquare(squareId)

SpecMem == InitMem /\ [][NextMem]_vars

(***************************************************************************)
(* mge.py: save() and saveDraft() write self.json, and the json getter     *)
(* starts with trimBlankSquaresFromEnd (line 240).  The list can be        *)
(* shorter afterwards, so undo and redo can meet an id that is no index    *)
(* of it: self[squareId] raises IndexError in the middle of the loop.      *)
(***************************************************************************)
\* undo / redo, lines 147-150 and 159-162, as [squares, raised]
RECURSIVE WriteBackRaising(_, _, _)
WriteBackRaising(sqs, transaction, side) ==
  IF transaction = <<>> THEN [squares |-> sqs, raised |-> FALSE]
  ELSE LET state == Head(transaction)[side]
       IN IF state.squareId >= Len(sqs) THEN [squares |-> sqs, raised |-> TRUE]
          ELSE WriteBackRaising([sqs EXCEPT ![state.squareId + 1] =
                                   Square(state.squareId, state.text, state.streets)],
                                Tail(transaction), side)

\* undo, lines 141-151: the transaction is popped before the loop and pushed
\* onto the redo stack after it
UndoRaising(m) ==
  IF m.done = <<>> THEN m @@ [popped |-> FALSE, raised |-> FALSE]
  ELSE LET transaction == m.done[Len(m.done)]
           w == WriteBackRaising(m.squares, transaction, 1)
       IN [m EXCEPT !.squares = w.squares,
                    !.done = SubSeq(m.done, 1, Len(m.done) - 1),
                    !.undone = IF w.raised THEN @ ELSE Append(@, transaction),
                    !.edited = TRUE] @@ [popped |-> TRUE, raised |-> w.raised]

\* redo, lines 153-163
RedoRaising(m) ==
  IF m.undone = <<>> THEN m @@ [popped |-> FALSE, raised |-> FALSE]
  ELSE LET transaction == m.undone[Len(m.undone)]
           w == WriteBackRaising(m.squares, transaction, 2)
       IN [m EXCEPT !.squares = w.squares,
                    !.done = IF w.raised THEN @ ELSE Append(@, transaction),
                    !.undone = SubSeq(m.undone, 1, Len(m.undone) - 1),
                    !.edited = TRUE] @@ [popped |-> TRUE, raised |-> w.raised]

\* save, lines 288-290: the json getter on the store
SaveMem(m) ==
  LET t == trimBlankSquaresFromEnd([squares |-> m.squares, deleted |-> m.deleted,
                                    raised |-> FALSE])
  IN [m EXCEPT !.squares = t.squares, !.deleted = t.deleted] @@ [raised |-> t.raised]

\* deleteSquare, lines 207-210, with applyChanges meeting a staged id that is
\* no index of the list: line 126 raises IndexError after line 123 or 125
\* has dealt with the free list, and what the loop did before stays
DeleteSquareRaising(m, squareId) ==
  LET staged == m.stagedSquares \o getDeleteSquareChangesMem(m.squares, squareId)
      outside == { i \in DOMAIN staged : staged[i].squareId >= Len(m.squares) }
  IN IF outside = {} THEN DeleteSquareMem(m, squareId) @@ [raised |-> FALSE]
     ELSE LET k == CHOOSE i \in outside : \A j \in outside : i <= j
              a == ApplyStaged([squares |-> m.squares, deleted |-> m.deleted,
                                didNow |-> <<>>, didSomething |-> FALSE],
                               SubSeq(staged, 1, k - 1))
              square == staged[k]
          IN [squares |-> a.squares,
              deleted |-> IF square.text = None THEN Append(a.deleted, square.squareId)
                          ELSE IF square.squareId \in Range(a.deleted)
                          THEN RemoveFirst(a.deleted, square.squareId)
                          ELSE a.deleted,
              stagedSquares |-> staged, done |-> m.done, undone |-> m.undone,
              edited |-> m.edited,
              didSomething |-> FALSE, savedDraft |-> FALSE, raised |-> TRUE]

MemSaveDeleteSquare(squareId) ==
  /\ squareId < Len(squares)
  /\ Len(stagedSquares) < MaxStagedMem
  /\ \E m \in {DeleteSquareRaising(Mem, squareId)} :
       MemStep([k \in DOMAIN Mem |-> m[k]],
               [name |-> "deleteSquare", squareId |-> squareId,
                didSomething |-> m.didSomething, savedDraft |-> m.savedDraft,
                raised |-> m.raised],
               m.didSomething)

MemSave ==
  \E m \in {SaveMem(Mem)} :
    MemStep([k \in DOMAIN Mem |-> m[k]], [name |-> "save", raised |-> m.raised], FALSE)

MemSaveUndo ==
  \E m \in {UndoRaising(Mem)} :
    MemStep([k \in DOMAIN Mem |-> m[k]],
            [name |-> "undo", popped |-> m.popped, raised |-> m.raised], m.popped)

MemSaveRedo ==
  \E m \in {RedoRaising(Mem)} :
    MemStep([k \in DOMAIN Mem |-> m[k]],
            [name |-> "redo", popped |-> m.popped, raised |-> m.raised], m.popped)

NextMemSave ==
  \/ MemAllocSquare
  \/ \E squareId \in Ids : MemSaveDeleteSquare(squareId)
  \/ MemSave
  \/ MemSaveUndo
  \/ MemSaveRedo

SpecMemSave == InitMem /\ [][NextMemSave]_vars

(***************************************************************************)
(* mge.py: getTree and deleteTree of the in-memory store.  deleteTree      *)
(* collects street.destination (line 231), so the streets it stages are    *)
(* bare destinations: <<destination>>, where a Street is <<name,           *)
(* destination>>.  Reading .destination or .name of a bare destination     *)
(* raises AttributeError.                                                  *)
(***************************************************************************)
IsStreet(street) == Len(street) = 2

\* getTree, lines 216-222, as [tree, raised]; `stack` holds the ids of the
\* calls that have not returned (a call for one of them never returns)
RECURSIVE getTreeMem(_, _, _)
RECURSIVE TreeStreetsMem(_, _, _, _)
getTreeMem(sqs, squareId, stack) ==
  IF squareId >= Len(sqs) THEN [tree |-> {}, raised |-> "IndexError"]
  ELSE IF squareId \in stack THEN [tree |-> {}, raised |-> "RecursionError"]
  ELSE TreeStreetsMem(sqs, At(sqs, squareId).streets, {squareId}, stack \cup {squareId})

TreeStreetsMem(sqs, streets, tree, stack) ==
  IF streets = <<>> THEN [tree |-> tree, raised |-> "none"]
  ELSE IF ~IsStreet(Head(streets)) THEN [tree |-> tree, raised |-> "AttributeError"]
  ELSE IF Head(streets)[2] \in tree THEN TreeStreetsMem(sqs, Tail(streets), tree, stack)
  ELSE One({ IF sub.raised # "none" THEN [tree |-> tree, raised |-> sub.raised]
             ELSE TreeStreetsMem(sqs, Tail(streets), tree \cup sub.tree, stack) :
             sub \in {getTreeMem(sqs, Head(streets)[2], stack)} })

\* deleteTree, lines 226-233, on the squares left to visit: the squares
\* staged so far, and whether the loop raised.  A list of bare destinations
\* as long as the list of streets is compared item by item, and
\* Street.__eq__ reads other.name: AttributeError.
RECURSIVE StageSurvivors(_, _, _)
StageSurvivors(sqs, squaresForDeletion, staged) ==
  IF sqs = <<>> THEN [staged |-> staged, raised |-> "none"]
  ELSE
    LET square == Head(sqs)
        kept == SelectSeq(square.streets, LAMBDA street : street[Len(street)] \notin squaresForDeletion)
        newStreets == [i \in DOMAIN kept |-> <<kept[i][2]>>]
    IN IF square.squareId \in squaresForDeletion
       THEN StageSurvivors(Tail(sqs), squaresForDeletion, staged)
       ELSE IF \E i \in DOMAIN square.streets : ~IsStreet(square.streets[i])
       THEN [staged |-> staged, raised |-> "AttributeError"]
       ELSE IF Len(kept) # Len(square.streets)
       THEN StageSurvivors(Tail(sqs), squaresForDeletion,
                           Append(staged, Square(square.squareId, square.text, newStreets)))
       ELSE IF kept = <<>>
       THEN StageSurvivors(Tail(sqs), squaresForDeletion, staged)
       ELSE [staged |-> staged, raised |-> "AttributeError"]

\* deleteTree, lines 224-236
DeleteTreeMem(m, squareId) ==
  LET t == getTreeMem(m.squares, squareId, {})
      s == StageSurvivors(m.squares, t.tree, m.stagedSquares)
      doomed == Ascending(t.tree)
      tombstones == [i \in DOMAIN doomed |-> Square(doomed[i], None, <<>>)]
  IN IF t.raised # "none"
     THEN m @@ [raised |-> t.raised, tree |-> {}, didSomething |-> FALSE]
     ELSE IF s.raised # "none"
     THEN [m EXCEPT !.stagedSquares = s.staged]
          @@ [raised |-> s.raised, tree |-> t.tree, didSomething |-> FALSE]
     ELSE One({ [k \in DOMAIN m |-> a[k]]
                @@ [raised |-> "none", tree |-> t.tree, didSomething |-> a.didSomething] :
                a \in {ApplyChangesMem([m EXCEPT !.stagedSquares = s.staged \o tombstones])} })

\* the street lists of the files: none, one street, two streets, a street
\* back to square 0
MemTreeStreetLists ==
  { <<>>, << <<"l", 1>> >>, << <<"l", 2>> >>, << <<"l", 1>>, <<"m", 2>> >>, << <<"m", 0>> >> }

\* three squares, each with one of the street lists
MemTreeFiles ==
  { << <<"a", s0>>, <<"b", s1>>, <<"c", s2>> >> :
      s0 \in MemTreeStreetLists, s1 \in MemTreeStreetLists, s2 \in MemTreeStreetLists }

InitMemTree ==
  /\ \E records \in MemTreeFiles :
       LET m == StartMem(records, TRUE)
       IN /\ squares = m.squares /\ deleted = m.deleted
          /\ stagedSquares = m.stagedSquares /\ done = m.done
          /\ undone = m.undone /\ edited = m.edited
  /\ graph = <<>> /\ streetsByDestination = <<>> /\ nextSquareId = 0
  /\ readonly = FALSE /\ running = FALSE /\ repl = FALSE
  /\ resultingSquares = <<>> /\ returnValues = <<>>
  /\ lastOp = NoOp /\ phase = NoPhase /\ pre = NoPre
  /\ NoPipes

MemDeleteTree(squareId) ==
  /\ Len(done) < MaxTreeDone
  /\ \E m \in {DeleteTreeMem(Mem, squareId)} :
       /\ Len(m.deleted) <= MaxTreeDeleted
       /\ Len(m.stagedSquares) <= MaxTreeStaged
       /\ SetMem(m)
       /\ lastOp' = [name |-> "deleteTree", squareId |-> squareId,
                     raised |-> m.raised, tree |-> m.tree]
  /\ UNCHANGED <<serverVars, pipeVars, phase, pre>>

MemTreeUndo ==
  /\ \E m \in {UndoMem(Mem)} :
       /\ SetMem(m)
       /\ lastOp' = [name |-> "undo", popped |-> m.popped]
  /\ UNCHANGED <<serverVars, pipeVars, phase, pre>>

NextMemTree ==
  \/ \E squareId \in 0 .. 2 : MemDeleteTree(squareId)
  \/ MemTreeUndo

SpecMemTree == InitMemTree /\ [][NextMemTree]_vars

(***************************************************************************)
(* textgraph.py: getTree and deleteTree of the server-backed store.        *)
(***************************************************************************)
\* getTree: the visited set `tree` is local to each call, so a call only
\* skips the destinations its own loop has collected so far.  `stack` holds
\* the ids of the calls that have not returned: a call for an id of the
\* stack repeats that call's steps and never returns (RecursionError).
\* The result is [sv, tree, expanded, overflow]; expanded lists the ids read
\* by line 243, in order.
RECURSIVE getTree(_, _, _)
RECURSIVE TreeStreets(_, _, _, _, _)
getTree(sv, squareId, stack) ==
  IF squareId \in stack
  THEN [sv |-> sv, tree |-> {}, expanded |-> <<>>, overflow |-> TRUE]
  ELSE LET r == GetItem(sv, squareId)
       IN TreeStreets(r.sv, r.square.streets, {r.square.squareId},
                      <<squareId>>, stack \cup {squareId})

\* getTree, lines 245-247
TreeStreets(sv, streets, tree, expanded, stack) ==
  IF streets = <<>>
  THEN [sv |-> sv, tree |-> tree, expanded |-> expanded, overflow |-> FALSE]
  ELSE IF Head(streets)[2] \in tree
  THEN TreeStreets(sv, Tail(streets), tree, expanded, stack)
  ELSE LET sub == getTree(sv, Head(streets)[2], stack)
       IN IF sub.overflow
          THEN [sv |-> sub.sv, tree |-> tree, expanded |-> expanded \o sub.expanded,
                overflow |-> TRUE]
          ELSE TreeStreets(sub.sv, Tail(streets), tree \cup sub.tree,
                           expanded \o sub.expanded, stack)

\* TextGraph.__iter__: iterating the dict of _getAllSquares yields its keys
Iter(sv) ==
  LET listed == Send(sv, <<>>)
  IN [sv |-> listed,
      items |-> [i \in DOMAIN listed.resultingSquares |-> listed.resultingSquares[i][1]]]

\* deleteTree: line 253 reads .squareId of the first item of the iteration,
\* an int, and raises AttributeError; on an empty graph the list-all request
\* kills the server and send() raises.  Lines 254-262 are never reached.
DeleteTreeClient(c, squareId) ==
  LET t == getTree(c.sv, squareId, {})
  IN IF t.overflow
     THEN [c EXCEPT !.sv = t.sv] @@ [raised |-> "RecursionError"]
     ELSE LET it == Iter(t.sv)
          IN IF ~it.sv.running
             THEN [c EXCEPT !.sv = it.sv] @@ [raised |-> "ValueError"]
             ELSE [c EXCEPT !.sv = it.sv] @@ [raised |-> "AttributeError"]

\* files the store is opened on: the two-square tree, a cycle 0 -> 1 -> 0,
\* a diamond 0 -> {1, 2} -> 3, and a self-loop
TreeFiles ==
  { << <<0, "a", << <<"l", 1>> >>>>, <<1, "b", <<>>>> >>,
    << <<0, "a", << <<"l", 1>> >>>>, <<1, "b", << <<"l", 0>> >>>> >>,
    << <<0, "a", << <<"l", 1>>, <<"m", 2>> >>>>, <<1, "b", << <<"l", 3>> >>>>,
       <<2, "b", << <<"l", 3>> >>>>, <<3, "a", <<>>>> >>,
    << <<0, "a", << <<"l", 0>>, <<"m", 1>> >>>>, <<1, "b", <<>>>> >> }

TreeIds == 0 .. 3

InitTree ==
  /\ \E lines \in TreeFiles :
       LET sv == StartServer(lines, FALSE)
       IN /\ graph = sv.graph
          /\ streetsByDestination = sv.streetsByDestination
          /\ nextSquareId = sv.nextSquareId
          /\ readonly = sv.readonly
          /\ running = sv.running
          /\ repl = sv.repl
          /\ resultingSquares = sv.resultingSquares
          /\ returnValues = sv.returnValues
  /\ NoStore /\ NoMem /\ NoPipes
  /\ lastOp = NoOp /\ phase = NoPhase /\ pre = NoPre

GetTree(squareId) ==
  \E t \in {getTree(Server, squareId, {})} :
     /\ running
     /\ SetServer(Consumed(t.sv))
     /\ lastOp' = [name |-> "getTree", squareId |-> squareId, tree |-> t.tree,
                   expanded |-> t.expanded, overflow |-> t.overflow]
     /\ phase' = NoPhase
     /\ pre' = NoPre
     /\ UNCHANGED <<storeVars, memVars, pipeVars>>

DeleteTree(squareId) ==
  \E c \in {DeleteTreeClient(Client, squareId)} :
     /\ running
     /\ SetClient(c)
     /\ lastOp' = [name |-> "deleteTree", squareId |-> squareId, raised |-> c.raised]
     /\ phase' = NoPhase
     /\ pre' = NoPre
     /\ UNCHANGED <<memVars, pipeVars>>

NextTree ==
  \/ \E squareId \in TreeIds : GetTree(squareId)
  \/ \E squareId \in TreeIds : DeleteTree(squareId)
  \/ \E squareId \in Ids : DeleteSquare(squareId)
  \/ Undo

SpecTree == InitTree /\ [][NextTree]_vars

(***************************************************************************)
(* Properties                                                              *)
(***************************************************************************)
\* a staged square differs from the committed state of its id in graph g
EntryDiffers(g, square) ==
  IF square.squareId \in Keys(g)
  THEN \/ square.text = None
       \/ Get(g, square.squareId)[2] # square.text
       \/ Get(g, square.squareId)[3] # square.streets
  ELSE square.text # None

\* every [origin, name, d] an outgoing street of a live node contributes
RECURSIVE ScanIncoming(_, _)
ScanIncoming(g, d) ==
  IF g = <<>> THEN <<>>
  ELSE LET origin == Head(g)[1]
           hits == SelectSeq(Head(g)[3], LAMBDA street : street[2] = d)
       IN [i \in DOMAIN hits |-> <<origin, hits[i][1], d>>] \o ScanIncoming(Tail(g), d)

Destinations(g) == UNION {{g[i][3][j][2] : j \in DOMAIN g[i][3]} : i \in DOMAIN g}

\* C1: an undo() issued right after an apply() that changed the graph leaves
\* every square with the text and streets it had before the apply()
\* (in-memory store; a blank square is an absent node).
C1_UndoRestoresPreApply ==
  [][(phase.step = "applied" /\ phase.by.name = "applyChanges" /\ lastOp'.name = "undo")
       => squares' = pre.squares]_vars

\* C2: apply(), undo(), redo() ends in the state right after the apply(): the
\* same squares, the same incoming streets reported for every id, the same
\* undo and redo stacks.
C2_RedoRestoresPostApply ==
  [][(phase.step = "undone" /\ lastOp'.name = "redo")
       => /\ AsMap(graph') = pre.graph
          /\ \A d \in DOMAIN streetsByDestination' \cup DOMAIN pre.streetsByDestination :
               Incoming(streetsByDestination', d) = Incoming(pre.streetsByDestination, d)
          /\ done' = pre.done
          /\ undone' = pre.undone]_vars

C4_NoOpApplyClearsBuffer ==
  [][(lastOp'.name = "applyChanges"
      /\ \A i \in DOMAIN stagedSquares : ~EntryDiffers(graph, stagedSquares[i]))
       => /\ AsMap(graph') = AsMap(graph)
          /\ done' = done
          /\ undone' = undone
          /\ edited' = edited
          /\ stagedSquares' = <<>>]_vars

\* C5: the reverse index of every destination holds exactly the
\* [origin, name, destination] entries of the streets of the live squares.
C5_ReverseIndexIsScan ==
  \A d \in DOMAIN streetsByDestination \cup Destinations(graph) :
    Incoming(streetsByDestination, d) = Sort(ScanIncoming(graph, d))

\* C6: an allocation never answers with an id that is a key of the graph.
C6_AllocateReturnsFreeId ==
  [][(lastOp'.name = "allocate" /\ running')
       => resultingSquares'[1][1] \notin Keys(graph)]_vars

\* C7: square 0 is in the server's graph in every reachable state.
C7_SquareZeroExists == 0 \in Keys(graph)

\* C8: deleteSquare(id), id # 0, blanks square id, keeps the text of every
\* other square and removes from every other square exactly the streets that
\* lead to id, the others staying in order (in-memory store, empty buffer).
C8_DeleteSquareStripsStreets ==
  [][(lastOp'.name = "deleteSquare" /\ lastOp'.squareId # 0 /\ stagedSquares = <<>>)
       => /\ At(squares', lastOp'.squareId).text = None
          /\ Len(squares') = Len(squares)
          /\ \A k \in DOMAIN squares :
               k # lastOp'.squareId + 1 =>
                 /\ squares'[k].text = squares[k].text
                 /\ squares'[k].streets =
                      SelectSeq(squares[k].streets,
                                LAMBDA street : street[2] # lastOp'.squareId)]_vars

\* C9: deleteSquare(0) is rejected: no square and no street changes, nothing
\* is pushed, the redo stack and the buffer stay, square 0 is still there.
C9_DeleteSquareZeroRejected ==
  [][(lastOp'.name = "deleteSquare" /\ lastOp'.squareId = 0)
       => /\ AsMap(graph') = AsMap(graph)
          /\ done' = done
          /\ undone' = undone
          /\ stagedSquares' = stagedSquares
          /\ 0 \in Keys(graph')]_vars

\* C10: deleteSquare(id) commits its edits as exactly one transaction, and one
\* undo() brings back the deleted square and the streets of every origin.
C10_DeleteSquareIsOneTransaction ==
  [][/\ lastOp'.name = "deleteSquare"
          => /\ Len(done') = Len(done) + 1
             /\ SubSeq(done', 1, Len(done)) = done
     /\ (phase.step = "applied" /\ phase.by.name = "deleteSquare" /\ lastOp'.name = "undo")
          => /\ AsMap(graph') = pre.graph
             /\ done' = pre.done]_vars

\* C10 witness: the undo() after deleteSquare(1) brought square 1 back, and
\* square 0 has its street to 1 again
C10_Witness ==
  /\ phase.step = "undone"
  /\ phase.by.name = "deleteSquare"
  /\ phase.by.squareId = 1
  /\ 1 \notin DOMAIN pre.graph
  /\ 1 \in Keys(graph)
  /\ \E j \in DOMAIN Get(graph, 0)[3] : Get(graph, 0)[3][j][2] = 1
  /\ \A j \in DOMAIN pre.graph[0][3] : pre.graph[0][3][j][2] # 1

\* the ids reachable from the ids of set through the streets of graph g
Successors(g, k) ==
  IF k \in Keys(g) THEN {Get(g, k)[3][j][2] : j \in DOMAIN Get(g, k)[3]} ELSE {}

RECURSIVE Closure(_, _)
Closure(g, set) ==
  LET next == set \cup UNION {Successors(g, k) : k \in set}
  IN IF next = set THEN set ELSE Closure(g, next)

\* C11: deleteTree(id) returns normally and leaves a graph without id and
\* without any id reachable from it (computed on the graph before the call),
\* with every other square still there and no street into the removed set.
C11_DeleteTreeRemovesReachable ==
  [][lastOp'.name = "deleteTree"
       => LET gone == Closure(graph, {lastOp'.squareId})
          IN /\ lastOp'.raised = None
             /\ Keys(graph') = Keys(graph) \ gone
             /\ \A k \in Keys(graph') : Successors(graph', k) \cap gone = {}]_vars

\* C12: getTree(id) returns on every graph (self-loop, cycle, diamond) and
\* reads no square twice.
C12_GetTreeTerminatesWithoutRevisit ==
  [][lastOp'.name = "getTree"
       => /\ ~lastOp'.overflow
          /\ \A i, j \in DOMAIN lastOp'.expanded :
               i # j => lastOp'.expanded[i] # lastOp'.expanded[j]]_vars

\* C13: on a read-only server every upsert, delete and allocate is answered
\* with the status "Read only" and leaves the graph and the reverse index as
\* they were.
C13_ReadOnlyRejectsWrites ==
  [][(readonly /\ lastOp'.name \in {"upsert", "delete", "allocate"})
       => /\ running'
          /\ Len(returnValues') = Len(lastOp'.inputObject)
          /\ \A i \in DOMAIN returnValues' : returnValues'[i][2] = ReadOnly
          /\ graph' = graph
          /\ streetsByDestination' = streetsByDestination]_vars

\* C14: the query [id] that follows an upsert [id, T, E] answers, on a
\* writable server, with id, T and E and null statuses; on a read-only server
\* that holds square id, the upsert leaves the square alone and the query
\* answers with that square and the status "Read only".
C14_UpsertThenQuery ==
  [][/\ (readonly /\ lastOp'.name = "upsert" /\ Len(lastOp'.inputObject[1]) = 3
           /\ lastOp'.inputObject[1][1] \in Keys(graph))
          => /\ running'
             /\ Get(graph', lastOp'.inputObject[1][1]) = Get(graph, lastOp'.inputObject[1][1])
     /\ (lastOp.name = "upsert" /\ Len(lastOp.inputObject[1]) = 3
           /\ lastOp'.name = "query"
           /\ lastOp'.inputObject[1][1] = lastOp.inputObject[1][1])
          => /\ running'
             /\ Len(resultingSquares') = 1
             /\ Len(returnValues') = 1
             /\ IF readonly
                THEN /\ resultingSquares'[1] = Get(graph, lastOp.inputObject[1][1])
                     /\ returnValues'[1][2] = ReadOnly
                ELSE /\ SubSeq(resultingSquares'[1], 1, 3) = lastOp.inputObject[1]
                     /\ returnValues'[1][2] = None
                     /\ \A j \in DOMAIN returnValues'[1][3] : returnValues'[1][3][j] = None]_vars

\* C14 witness: a writable server has answered the query of a square that the
\* request before it upserted with two streets
C14_Witness ==
  /\ phase.step = "readBack"
  /\ ~readonly
  /\ running
  /\ Len(resultingSquares[1][3]) = 2
  /\ returnValues[1][2] = None

\* the ids a request line names, one per operation
RequestIds(g, inputObject) ==
  IF inputObject = <<>> THEN [i \in DOMAIN g |-> g[i][1]]
  ELSE [i \in DOMAIN inputObject |-> inputObject[i][1]]

\* C15: a request line of k operations (the empty list: k live squares) is
\* answered with two lines of k entries each, entry i of both naming the
\* square of operation i.
C15_TwoLinesOfKEntries ==
  [][lastOp'.name \in {"query", "upsert", "delete", "allocate", "list", "batch"}
       => LET ids == RequestIds(graph, lastOp'.inputObject)
          IN /\ running'
             /\ Len(resultingSquares') = Len(ids)
             /\ Len(returnValues') = Len(ids)
             /\ \A i \in DOMAIN ids :
                  /\ resultingSquares'[i][1] = returnValues'[i][1]
                  /\ ids[i] # NullId => resultingSquares'[i][1] = ids[i]]_vars

\* C16: a batch [[i, null], [j, "b"]] applies its operations in order, each
\* with its own outcome: the delete removes i or reports that i does not
\* exist, and whichever it was, the upsert then rewrites the text of j or
\* reports that j does not exist (read-only: both are refused).
C16_BatchOutcomesIndependent ==
  [][lastOp'.name = "batch"
       => LET i == lastOp'.inputObject[1][1]
              j == lastOp'.inputObject[2][1]
              left == Keys(graph) \ {i}
          IN /\ running'
             /\ Len(returnValues') = 2
             /\ IF readonly
                THEN /\ returnValues'[1][2] = ReadOnly
                     /\ returnValues'[2][2] = ReadOnly
                     /\ graph' = graph
                ELSE /\ returnValues'[1][2] = (IF i \in Keys(graph) THEN None ELSE DoesNotExist)
                     /\ returnValues'[2][2] = (IF j \in left THEN None ELSE DoesNotExist)
                     /\ Keys(graph') = left
                     /\ \A k \in left :
                          Get(graph', k) =
                            (IF k = j THEN <<k, "b", Get(graph, k)[3]>> ELSE Get(graph, k))]_vars

\* C17: on a writable server a query or a delete of an id that is not in the
\* graph is answered with [id, null, [], []] and the status "Square does not
\* exist."; the graph and the reverse index stay and the server keeps running.
C17_AbsentIdIsReported ==
  [][(~readonly /\ lastOp'.name \in {"query", "delete"}
        /\ lastOp'.inputObject[1][1] \notin Keys(graph))
       => /\ running'
          /\ resultingSquares' = << <<lastOp'.inputObject[1][1], None, <<>>, <<>>>> >>
          /\ Len(returnValues') = 1
          /\ returnValues'[1][2] = DoesNotExist
          /\ graph' = graph
          /\ streetsByDestination' = streetsByDestination]_vars

\* C17 witness: a writable server that still has squares has just reported
\* the delete of an absent id
C17_Witness ==
  /\ lastOp.name = "delete"
  /\ ~readonly
  /\ running
  /\ graph # <<>>
  /\ lastOp.inputObject[1][1] \notin Keys(graph)
  /\ returnValues = << <<lastOp.inputObject[1][1], DoesNotExist, DoesNotExist>> >>

\* C18: a line that cannot be decoded is never answered and never changes the
\* graph; without --repl the server stops; with --repl the line is printed,
\* the reverse index and nextSquareId stay too, and the request after it is
\* answered as usual.
C18_UndecodableLine ==
  [][/\ lastOp'.name = "undecodable"
          => /\ resultingSquares' = <<>>
             /\ returnValues' = <<>>
             /\ graph' = graph
             /\ IF repl
                THEN /\ running'
                     /\ lastOp'.printed
                     /\ streetsByDestination' = streetsByDestination
                     /\ nextSquareId' = nextSquareId
                ELSE ~running'
     /\ (phase.step = "skipped" /\ lastOp'.name \in {"query", "upsert", "delete"})
          => LET answer == InterpretLine(Server, lastOp'.inputObject)
             IN /\ running'
                /\ Len(returnValues') = 1
                /\ graph' = answer.graph
                /\ streetsByDestination' = answer.streetsByDestination
                /\ resultingSquares' = answer.resultingSquares
                /\ returnValues' = answer.returnValues]_vars

\* C18 witness: a server under --repl skipped an undecodable line and then
\* served the upsert that created square 1
C18_Witness ==
  /\ repl
  /\ running
  /\ phase.step = "resumed"
  /\ lastOp.name = "upsert"
  /\ lastOp.inputObject[1][1] = 1
  /\ returnValues[1][2] = None
  /\ 1 \in Keys(graph)

\* C19: an upsert [id, text] without streets succeeds on a writable server:
\* a square that exists gets the text and keeps its streets, one that does
\* not exist is created with the text and no streets.
C19_UpsertWithoutStreets ==
  [][(~readonly /\ lastOp'.name = "upsert" /\ Len(lastOp'.inputObject[1]) = 2)
       => LET id == lastOp'.inputObject[1][1]
              text == lastOp'.inputObject[1][2]
          IN /\ running'
             /\ returnValues'[1][2] = None
             /\ id \in Keys(graph')
             /\ Get(graph', id) =
                  <<id, text, IF id \in Keys(graph) THEN Get(graph, id)[3] ELSE <<>>>>]_vars

\* C20: an operation [null, text] or [null, text, streets] on a writable
\* server answers with an id that was free, and the square of that id is
\* then live with that text and those streets (none when omitted).
C20_AllocateWithTextCreates ==
  [][(~readonly /\ lastOp'.name = "allocate" /\ Len(lastOp'.inputObject[1]) >= 2)
       => LET op == lastOp'.inputObject[1]
              id == resultingSquares'[1][1]
          IN /\ running'
             /\ returnValues'[1][2] = None
             /\ id \notin Keys(graph)
             /\ id \in Keys(graph')
             /\ Get(graph', id) = <<id, op[2], IF Len(op) = 3 THEN op[3] ELSE <<>>>>]_vars

\* C21: in the in-memory store allocSquare never returns the id of a square
\* that has text, whatever allocations, stagings, applies, undos, redos and
\* deletions came before.
C21_AllocateReturnsBlankId ==
  [][lastOp'.name = "allocSquare"
       => At(squares', lastOp'.result).text = None]_vars

\* C22: in the in-memory store an id freed by deleteSquare is not returned
\* by the allocSquare that follows while a square with text still has a
\* street to it, or while streets are still stored at it.
C22_FreedIdIsUnreferenced ==
  [][(/\ lastOp.name = "deleteSquare"
      /\ lastOp'.name = "allocSquare"
      /\ lastOp'.result = lastOp.squareId)
       => /\ At(squares, lastOp'.result).streets = <<>>
          /\ \A k \in DOMAIN squares :
               squares[k].text # None =>
                 \A i \in DOMAIN squares[k].streets :
                   squares[k].streets[i][2] # lastOp'.result]_vars

\* C23: the ids one server answers to successive allocations are strictly
\* increasing, whatever queries, upserts and deletes with explicit ids come
\* in between, and no allocation answers an id that was deleted before it.
C23_AllocationsIncrease ==
  [][(lastOp'.name = "allocate" /\ running')
       => LET id == resultingSquares'[1][1]
          IN /\ pre.allocated # NullId => id > pre.allocated
             /\ id \notin pre.deletedIds]_vars

\* C24: a store opened on a well-formed id-tagged file (header lines H, then
\* records R) whose server has read the file, saved without any edit, writes
\* H followed by the records of R in the same order, byte for byte.
C24_SaveReproducesFile ==
  [][(lastOp'.name = "save" /\ lastOp'.loaded)
       => lastOp'.written = pre.file]_vars

\* the streets the server holds for an id, none for an id it does not hold
StoreStreets(g, squareId) == IF squareId \in Keys(g) THEN Get(g, squareId)[3] ELSE <<>>

\* C25: every square a neighborhood returns carries exactly the streets of
\* the store's square whose destination is among the returned ids, in their
\* order in the store; no returned street leads outside the returned ids.
C25_NeighborhoodStreetsStayInside ==
  [][(lastOp'.name = "neighborhood" /\ ~lastOp'.raised)
       => LET returned == lastOp'.squares
              ids == {returned[i].squareId : i \in DOMAIN returned}
          IN \A i \in DOMAIN returned :
               /\ returned[i].streets =
                    SelectSeq(StoreStreets(graph, returned[i].squareId),
                              LAMBDA street : street[2] \in ids)
               /\ \A k \in DOMAIN returned[i].streets : returned[i].streets[k][2] \in ids]_vars

\* C25 witness: a neighborhood was returned in which one square kept a
\* street and another lost one that leads outside
C25_Witness ==
  /\ lastOp.name = "neighborhood"
  /\ ~lastOp.raised
  /\ \E i \in DOMAIN lastOp.squares : lastOp.squares[i].streets # <<>>
  /\ \E i \in DOMAIN lastOp.squares :
       Len(lastOp.squares[i].streets) < Len(StoreStreets(graph, lastOp.squares[i].squareId))

C27_DotEdgesJoinDeclaredVertices ==
  LET d == Dot(squares)
      vertices == Range(d.labels)
      withText == {k \in DOMAIN squares : squares[k].text # None}
  IN /\ Len(d.labels) = Cardinality(withText)
     /\ vertices = {squares[k].squareId : k \in withText}
     /\ \A k \in withText :
          \A i \in DOMAIN squares[k].streets :
            Cardinality({e \in DOMAIN d.edges :
                           d.edges[e] = <<squares[k].squareId, squares[k].streets[i][2],
                                          squares[k].streets[i][1]>>})
              = Cardinality({j \in DOMAIN squares[k].streets :
                               squares[k].streets[j] = squares[k].streets[i]})
     /\ Len(d.edges) = Len(DotEdges(SelectSeq(squares, LAMBDA square : square.text # None)))
     /\ \A e \in DOMAIN d.edges : d.edges[e][1] \in vertices /\ d.edges[e][2] \in vertices

\* C28: applyChanges writes the recovery snapshot exactly when the
\* transaction it commits is the 5th, 10th, ... that the store has
\* committed, whatever undos and redos came in between, and never otherwise.
C28_DraftEveryFifthCommit ==
  [][lastOp'.name = "applyChanges"
       => (lastOp'.savedDraft <=> (lastOp'.didSomething /\ pre'.committed % 5 = 0))]_vars

C30_OneRequestAtATime ==
  /\ [](\A k \in DOMAIN stdout :
          /\ stdout[k].no = (k + 1) \div 2
          /\ stdout[k].line = 2 - (k % 2))
  /\ [][/\ (graph' # graph \/ streetsByDestination' # streetsByDestination
            \/ nextSquareId' # nextSquareId)
             => /\ phase.step = "interpreting"
                /\ Len(stdout) = 2 * (phase.no - 1)
        /\ stdout' # stdout
             => /\ stdout'[Len(stdout')].value =
                     (IF stdout'[Len(stdout')].line = 1 THEN pre.atomic.resultingSquares
                      ELSE pre.atomic.returnValues)
                /\ graph = pre.atomic.graph
                /\ streetsByDestination = pre.atomic.streetsByDestination
                /\ nextSquareId = pre.atomic.nextSquareId]_vars

\* C30 witness: the first request is answered, the server has done one of
\* the two operations of the second, and a third line waits in stdin
C30_Witness ==
  /\ Len(stdout) = 2
  /\ phase.step = "interpreting"
  /\ phase.no = 2
  /\ Len(phase.squares) = 1
  /\ Len(resultingSquares) = 1
  /\ stdin # <<>>

\* the ids one step away from the ids of a frontier: the destinations of the
\* streets of its squares and the origins of the streets that lead to them
StreetNeighbors(g, frontier) ==
  UNION {{g[i][3][k][2] : k \in DOMAIN g[i][3]} : i \in {j \in DOMAIN g : g[j][1] \in frontier}}
  \cup {g[i][1] : i \in {j \in DOMAIN g : \E k \in DOMAIN g[j][3] : g[j][3][k][2] \in frontier}}

\* the visited set after a number of rounds of frontier expansion
RECURSIVE Expansion(_, _, _, _)
Expansion(g, frontier, visited, rounds) ==
  IF rounds = 0 THEN visited
  ELSE Expansion(g, StreetNeighbors(g, frontier), visited \cup frontier, rounds - 1)

\* C31: on a writable store neighborhood(center, level) of a square of the
\* graph returns, and the ids of the squares it returns are exactly the ids
\* visited by level rounds of frontier expansion from {center} along the
\* streets of the graph, followed in both directions: the ids within distance
\* level - 1 of the center, {center} for level 1 and none for level 0.
C31_NeighborhoodIdsAreExpansion ==
  [][(lastOp'.name = "neighborhood" /\ ~readonly /\ lastOp'.center \in Keys(graph))
       => /\ ~lastOp'.raised
          /\ {lastOp'.squares[i].squareId : i \in DOMAIN lastOp'.squares}
               = Expansion(graph, {lastOp'.center}, {}, lastOp'.level)]_vars

\* C32: after a deleteTree that returns, every square outside the deleted
\* tree keeps its text, and its streets are exactly its previous [name,
\* destination] streets whose destination is outside the tree, in their
\* order; a square that had no street into the tree is as it was and is not
\* in the transaction (in-memory store).
C32_DeleteTreeKeepsSurvivors ==
  [][(lastOp'.name = "deleteTree" /\ lastOp'.raised = "none")
       => \A k \in DOMAIN squares :
            squares[k].squareId \notin lastOp'.tree
              => /\ squares'[k].text = squares[k].text
                 /\ squares'[k].streets =
                      SelectSeq(squares[k].streets,
                                LAMBDA street : street[Len(street)] \notin lastOp'.tree)
                 /\ (\A i \in DOMAIN squares[k].streets :
                       squares[k].streets[i][Len(squares[k].streets[i])] \notin lastOp'.tree)
                      => /\ squares'[k] = squares[k]
                         /\ \A p \in DOMAIN done'[Len(done')] :
                              done'[Len(done')][p][2].squareId # squares[k].squareId]_vars

\* the committed state of an id in graph g, as the store reads it
CommittedIn(g, squareId) ==
  IF squareId \in Keys(g)
  THEN Square(squareId, Get(g, squareId)[2], Get(g, squareId)[3])
  ELSE Square(squareId, None, <<>>)

\* the committed state a staged entry leaves behind
CommittedBy(entry) ==
  IF entry.text = None THEN Square(entry.squareId, None, <<>>) ELSE entry

\* the state of the id of pair i before that pair of a transaction is
\* written, the transaction having started on graph g
BeforeOf(g, transaction, i) ==
  LET earlier == {j \in 1 .. i - 1 : transaction[j][2].squareId = transaction[i][2].squareId}
  IN IF earlier = {} THEN CommittedIn(g, transaction[i][2].squareId)
     ELSE CommittedBy(transaction[CHOOSE j \in earlier : \A k \in earlier : k <= j][2])

\* C33: the transaction of an apply() that commits holds one (before, after)
\* pair per staged entry, in buffer order; each after-state is the entry, each
\* before-state is the state of the entry's id as the earlier entries left
\* it, and afterwards every id holds what its last entry staged
\* (server-backed store; deleteSquare stages its changes and applies).
C33_PairsFollowBufferOrder ==
  [][(lastOp'.name \in {"applyChanges", "deleteSquare"} /\ lastOp'.didSomething)
       => LET transaction == done'[Len(done')]
          IN /\ lastOp'.name = "applyChanges"
                  => /\ Len(transaction) = Len(stagedSquares)
                     /\ \A i \in DOMAIN transaction : transaction[i][2] = stagedSquares[i]
             /\ \A i \in DOMAIN transaction :
                  /\ transaction[i][1] = BeforeOf(graph, transaction, i)
                  /\ CommittedIn(graph', transaction[i][2].squareId)
                       = BeforeOf(graph, Append(transaction, transaction[i]),
                                  Len(transaction) + 1)]_vars

\* the entries of a reverse-index list whose origin is, or is not, squareId
EntriesFrom(incoming, squareId) == SelectSeq(incoming, LAMBDA e : e[1] = squareId)
EntriesNotFrom(incoming, squareId) == SelectSeq(incoming, LAMBDA e : e[1] # squareId)

\* C34: every list of the reverse index is sorted ascending by [origin,
\* name, destination] in every reachable state; and when a request writes a
\* square that is in the graph (an upsert, and a query or an allocation that
\* names it, which write it back), each list of a destination of its previous
\* streets holds, for that origin, exactly the entries of its new streets,
\* and the entries of the other origins are as before in every list.
C34_ReverseIndexSortedAndFresh ==
  /\ [](\A d \in DOMAIN streetsByDestination :
          \A i \in 1 .. Len(streetsByDestination[d]) - 1 :
            ~StreetEntryLess(streetsByDestination[d][i + 1], streetsByDestination[d][i]))
  /\ [][(/\ lastOp'.name \in {"query", "upsert", "allocate"}
         /\ ~readonly
         /\ running'
         /\ resultingSquares'[1][1] \in Keys(graph)
         /\ resultingSquares'[1][2] # None)
          => LET squareId == resultingSquares'[1][1]
                 streets == resultingSquares'[1][3]
                 previous == Get(graph, squareId)[3]
                 written(d) == SelectSeq(streets, LAMBDA street : street[2] = d)
             IN /\ \A k \in DOMAIN previous :
                     EntriesFrom(streetsByDestination'[previous[k][2]], squareId)
                       = Sort([i \in DOMAIN written(previous[k][2]) |->
                                 <<squareId, written(previous[k][2])[i][1], previous[k][2]>>])
                /\ \A d \in DOMAIN streetsByDestination' :
                     EntriesNotFrom(streetsByDestination'[d], squareId)
                       = EntriesNotFrom(Incoming(streetsByDestination, d), squareId)]_vars

\* C34 witness: after an upsert with streets, one list of the reverse index
\* is empty, which only the removal of a square's previous entries brings
\* about (a list is created with its first entry), and another list holds
\* the entries of two origins
C34_Witness ==
  /\ lastOp.name = "upsert"
  /\ Len(lastOp.inputObject[1]) = 3
  /\ running
  /\ \E d \in DOMAIN streetsByDestination : streetsByDestination[d] = <<>>
  /\ \E d \in DOMAIN streetsByDestination :
       /\ Len(streetsByDestination[d]) = 2
       /\ streetsByDestination[d][1][1] # streetsByDestination[d][2][1]

\* C35: a read-only server answers the query of an id, in the graph or not,
\* with one square of four components [id, text, streets, incoming streets],
\* and goes on serving.
C35_ReadOnlyQueryAnswered ==
  [][(lastOp'.name = "query" /\ readonly)
       => /\ running'
          /\ Len(resultingSquares') = 1
          /\ Len(resultingSquares'[1]) = 4]_vars

C37_QueryChangesNothing ==
  [][(lastOp'.name \in {"query", "list"} /\ ~readonly /\ running')
       => /\ graph' = graph
          /\ streetsByDestination' = streetsByDestination
          /\ InterpretLine(Server', lastOp'.inputObject).resultingSquares
               = resultingSquares']_vars


\* C38: when the write of the recovery snapshot fails in an applyChanges
\* that commits, the store is as after a commit whose snapshot was written:
\* the staged squares are in the graph, the transaction is on top of the
\* undo stack, the redo stack and the staged buffer are empty, edited is
\* true and the change handler has been called once.
C38_FailedDraftStillCommits ==
  [][(lastOp'.name = "applyChanges" /\ "raised" \in DOMAIN lastOp')
       => /\ AsMap(graph') = AsMap(ApplyChangesClient(Client).sv.graph)
          /\ Len(done') = Len(done) + 1
          /\ \A i \in DOMAIN stagedSquares : done'[Len(done')][i][2] = stagedSquares[i]
          /\ undone' = <<>>
          /\ stagedSquares' = <<>>
          /\ edited'
          /\ lastOp'.handlerCalls = 1]_vars


\* C39: save() of the in-memory store leaves the square list, the free
\* list, the staged buffer and the undo and redo stacks as they were, and
\* an undo() or a redo() right after it does what it would have done right
\* before it.
C39_SaveChangesNothing ==
  [][lastOp'.name = "save"
       => /\ squares' = squares
          /\ deleted' = deleted
          /\ stagedSquares' = stagedSquares
          /\ done' = done
          /\ undone' = undone
          /\ UndoRaising(Mem') = UndoRaising(Mem)
          /\ RedoRaising(Mem') = RedoRaising(Mem)]_vars

====
